---- MODULE Spec2Model ----
(***************************************************************************)
(* Ralph workflow orchestrator: the lock manager (src/utils/lock.ts), the  *)
(* `run` command and its bounded Plan/Validate and Implement/Review loops  *)
(* (commands/run.ts, kept in src/src/commands/publish.ts lines 248-406).   *)
(*                                                                         *)
(* Each process of Procs is one `ralph run` invocation (one OS process,    *)
(* one PID).  Every `await` of lock.ts on the file system is one step, so  *)
(* that invocations by different processes interleave between them.        *)
(***************************************************************************)
EXTENDS Integers, FiniteSets, Sequences, TLC

\* ---------------------------------------------------------------- bounds
NProcs == 2

Procs == 1 .. NProcs

Issues == {"HLN-1", "HLN-2"}

\* the payloads the invocations are given: all for one issue, or for two
IssueAssignments ==
    { [p \in Procs |-> "HLN-1"],
      [p \in Procs |-> IF p % 2 = 1 THEN "HLN-1" ELSE "HLN-2"] }

\* ------------------------------------------------------ program constants
MAX_VALIDATION_ATTEMPTS == 4

MAX_REVIEW_ATTEMPTS == 4

VARIABLES
    lockFile,    \* content of <root>/.ralph/lock
    clock,       \* logical time, read by `new Date()` when a lock is written
    pc,          \* per process: position in run / acquireLock / releaseLock
    issue,       \* per process: id of the issue its run was invoked with
    view,        \* per process: what its acquireLock call found at the root
    lockResult,  \* per process: value returned by acquireLock
    result,      \* per process: value returned (or thrown) by run
    ctx,         \* per process: the WorkflowContext spawn created
    loc,         \* per process: the local variables of runWorkflow
    calls,       \* per process and stage: invocations of the stage executor
    hist,        \* per process: the stage invoked last and what it returned
    vlog,        \* per process: the verdicts of its Validate invocations
    rlog,        \* per process: the verdicts of its Review invocations
    sessionFile, \* per issue: content of <worktree>/.ralph/session
    cli,         \* the standalone `ralph implement` invocations, latest first
    util         \* the call of a utility function made last, and what it gave

wfVars == <<ctx, loc, calls, hist, vlog, rlog, sessionFile, cli, util>>

vars ==
    <<lockFile, clock, pc, issue, view, lockResult, result, ctx, loc, calls, hist, vlog, rlog,
      sessionFile, cli, util>>

\* ------------------------------------------------------------ lock file
\* The lock file is absent, unparsable, or the JSON of one LockInfo.
NoFile == [kind |-> "absent", pid |-> 0, startedAt |-> 0, issueId |-> "", command |-> ""]

Corrupt == [kind |-> "corrupt", pid |-> 0, startedAt |-> 0, issueId |-> "", command |-> ""]

LockInfo(p, t, i, c) == [kind |-> "lock", pid |-> p, startedAt |-> t, issueId |-> i, command |-> c]

Undefined == NoFile

\* pcs at which a process has not started, has exited, or was killed
NotRunning == {"idle", "done", "dead"}

isProcessRunning(pid) == pid \in Procs /\ pc[pid] \notin NotRunning

\* isLockStale: an unreadable or unparsable file is stale, and so is a record
\* whose pid is not running.
\* (variants: the liveness probe left out; every lock file taken for stale)
isLockStaleNoProbe(file) == file.kind # "lock"

isLockStaleAlways(file) == TRUE

isLockStale(file) ==
    IF file.kind = "lock" THEN ~isProcessRunning(file.pid) ELSE TRUE

\* readLockInfo: undefined when the file is absent or does not parse
readLockInfo(file) == IF file.kind = "lock" THEN file ELSE Undefined

\* classification of the root as an acquireLock call finds it
Classify(file) ==
    IF file.kind = "absent" THEN "nofile"
    ELSE IF file.kind = "corrupt" THEN "corrupt"
    ELSE IF isProcessRunning(file.pid) THEN "live" ELSE "stale"

InAcquire == {"acq_stale", "acq_unlink", "acq_read", "acq_write"}

\* the views after a step of process p (or of the operator, p = 0) that
\* changed the lock file or ended a process: every other call in progress
\* has been interfered with
Disturbed(p) ==
    [q \in Procs |-> IF q # p /\ pc[q] \in InAcquire THEN "dirty" ELSE view[q]]

\* ------------------------------------------------------------- results
\* A message, by what it says: its kind, and the attempts, the lock holder,
\* the artifact path and the pull request it names.
NoPath == [dir |-> "", issueId |-> "", topic |-> ""]

Msg(kind, n, holder) ==
    [kind |-> kind, attempts |-> n, holder |-> holder, file |-> NoPath, ref |-> ""]

NoResult == [status |-> "none", success |-> FALSE, message |-> Msg("", 0, Undefined)]

Returned(ok, m) == [status |-> "returned", success |-> ok, message |-> m]

Thrown == [status |-> "thrown", success |-> FALSE, message |-> Msg("exception", 0, Undefined)]

\* no utility function has been called
NoCall == [op |-> "none"]

NoLockResult == [called |-> FALSE, acquired |-> FALSE, existingLock |-> Undefined]

LockResult(ok, existing) == [called |-> TRUE, acquired |-> ok, existingLock |-> existing]

LockHeldResultUnnamed(existing) == Returned(FALSE, Msg("lock_held", 0, Undefined))

\* run, lines 274-283: the message names the holder, or "unknown process"
LockHeldResult(existing) == Returned(FALSE, Msg("lock_held", 0, existing))

\* ----------------------------------------------------------- acquireLock
\* `ralph run` is invoked with the payload issue[p]: run calls
\* acquireLock(rootDir, issue.id, "run")
RunStart(p) ==
    /\ pc[p] = "idle"
    /\ pc' = [pc EXCEPT ![p] = "acq_exists"]
    /\ UNCHANGED <<lockFile, clock, issue, view, lockResult, result, wfVars>>

\* `if (await exists(lockPath))`
AcqExists(p) ==
    /\ pc[p] = "acq_exists"
    /\ view' = [view EXCEPT ![p] = Classify(lockFile)]
    /\ pc' = [pc EXCEPT ![p] = IF lockFile.kind = "absent" THEN "acq_write" ELSE "acq_stale"]
    /\ UNCHANGED <<lockFile, clock, issue, lockResult, result, wfVars>>

\* `if (await isLockStale(lockPath))`
AcqStale(p) ==
    /\ pc[p] = "acq_stale"
    /\ pc' = [pc EXCEPT ![p] = IF isLockStale(lockFile) THEN "acq_unlink" ELSE "acq_read"]
    /\ UNCHANGED <<lockFile, clock, issue, view, lockResult, result, wfVars>>

\* `await unlink(lockPath)`: rejects (ENOENT) when the file is gone, and the
\* rejection leaves acquireLock and run, which has not entered its try yet
AcqUnlink(p) ==
    /\ pc[p] = "acq_unlink"
    /\ IF lockFile.kind = "absent"
       THEN /\ pc' = [pc EXCEPT ![p] = "done"]
            /\ result' = [result EXCEPT ![p] = Thrown]
            /\ UNCHANGED <<lockFile, view>>
       ELSE /\ lockFile' = NoFile
            /\ pc' = [pc EXCEPT ![p] = "acq_write"]
            /\ view' = Disturbed(p)
            /\ UNCHANGED result
    /\ UNCHANGED <<clock, issue, lockResult, wfVars>>

\* the lock is held: `existingLock = await readLockInfo(...)`, acquireLock
\* returns {acquired: false, existingLock} and run returns its failure
AcqRead(p) ==
    /\ pc[p] = "acq_read"
    /\ lockResult' = [lockResult EXCEPT ![p] = LockResult(FALSE, readLockInfo(lockFile))]
    /\ result' = [result EXCEPT ![p] = LockHeldResult(readLockInfo(lockFile))]
    /\ pc' = [pc EXCEPT ![p] = "done"]
    /\ UNCHANGED <<lockFile, clock, issue, view, wfVars>>

\* the record acquireLock writes for its caller
NewLockKeepIssue(p, old) == LockInfo(p, clock, old.issueId, "run")

NewLock(p, old) == LockInfo(p, clock, issue[p], "run")

\* mkdir of the lock directory, `await Bun.write(lockPath, ...)`, and
\* acquireLock returns {acquired: true}; run enters its try
AcqWrite(p) ==
    /\ pc[p] = "acq_write"
    /\ lockFile' = NewLock(p, lockFile)
    /\ clock' = clock + 1
    /\ lockResult' = [lockResult EXCEPT ![p] = LockResult(TRUE, Undefined)]
    /\ pc' = [pc EXCEPT ![p] = "spawn"]
    /\ view' = Disturbed(p)
    /\ UNCHANGED <<issue, result, wfVars>>

\* ----------------------------------------------------------- releaseLock
\* run's finally: releaseLock, `if (await exists(lockPath))`; with no file
\* run returns what runWorkflow returned (or rethrows)
RelExists(p) ==
    /\ pc[p] = "finally"
    /\ pc' = [pc EXCEPT ![p] = IF lockFile.kind = "absent" THEN "done" ELSE "rel_read"]
    /\ UNCHANGED <<lockFile, clock, issue, view, lockResult, result, wfVars>>

\* `lockInfo && lockInfo.pid === process.pid`
OwnsLockInverted(p, info) == info.kind = "lock" /\ info.pid # p

OwnsLock(p, info) == info.kind = "lock" /\ info.pid = p

\* `lockInfo = await readLockInfo(...)` and the ownership test
RelRead(p) ==
    /\ pc[p] = "rel_read"
    /\ pc' = [pc EXCEPT ![p] =
                IF OwnsLock(p, readLockInfo(lockFile)) THEN "rel_unlink" ELSE "done"]
    /\ UNCHANGED <<lockFile, clock, issue, view, lockResult, result, wfVars>>

\* `await unlink(lockPath)`: a rejection (ENOENT) leaves the finally block
\* and replaces run's result
RelUnlink(p) ==
    /\ pc[p] = "rel_unlink"
    /\ IF lockFile.kind = "absent"
       THEN /\ result' = [result EXCEPT ![p] = Thrown]
            /\ UNCHANGED <<lockFile, view>>
       ELSE /\ lockFile' = NoFile
            /\ view' = Disturbed(p)
            /\ UNCHANGED result
    /\ pc' = [pc EXCEPT ![p] = "done"]
    /\ UNCHANGED <<clock, issue, lockResult, wfVars>>

\* forceRemoveLock, called by an operator: exists, then unlink
ForceRemove ==
    /\ lockFile.kind # "absent"
    /\ lockFile' = NoFile
    /\ view' = Disturbed(0)
    /\ UNCHANGED <<clock, pc, issue, lockResult, result, wfVars>>

\* the process is killed from outside: no handler, no finally block runs
Kill(p) ==
    /\ pc[p] \notin NotRunning
    /\ pc' = [pc EXCEPT ![p] = "dead"]
    /\ view' = Disturbed(p)
    /\ UNCHANGED <<lockFile, clock, issue, lockResult, result, wfVars>>

\* ------------------------------------------------------------------ text
\* What an agent prints and what a file holds is a sequence of characters.
Upper == <<"A", "B", "C", "D", "E", "F", "G", "H", "I", "J", "K", "L", "M", "N", "O", "P", "Q", "R", "S", "T", "U", "V", "W", "X", "Y", "Z">>

Lower == <<"a", "b", "c", "d", "e", "f", "g", "h", "i", "j", "k", "l", "m", "n", "o", "p", "q", "r", "s", "t", "u", "v", "w", "x", "y", "z">>

Letters == 1 .. Len(Upper)

\* String.prototype.toLowerCase
toLowerCase(s) ==
    [k \in 1 .. Len(s) |->
        IF \E n \in Letters : Upper[n] = s[k]
        THEN Lower[CHOOSE n \in Letters : Upper[n] = s[k]]
        ELSE s[k]]

\* String.prototype.includes
includes(s, k) == \E n \in 0 .. (Len(s) - Len(k)) : SubSeq(s, n + 1, n + Len(k)) = k

\* the keywords of the judges
KwNeedsChanges == <<"n", "e", "e", "d", "s", " ", "c", "h", "a", "n", "g", "e", "s">>

KwRequiresChanges == <<"r", "e", "q", "u", "i", "r", "e", "s", " ", "c", "h", "a", "n", "g", "e", "s">>

KwDoesNotMeet == <<"d", "o", "e", "s", " ", "n", "o", "t", " ", "m", "e", "e", "t">>

KwProblematic == <<"p", "r", "o", "b", "l", "e", "m", "a", "t", "i", "c">>

KwIssuesFound == <<"i", "s", "s", "u", "e", "s", " ", "f", "o", "u", "n", "d">>

KwMustBeFixed == <<"m", "u", "s", "t", " ", "b", "e", " ", "f", "i", "x", "e", "d">>

KwShouldBeRevised == <<"s", "h", "o", "u", "l", "d", " ", "b", "e", " ", "r", "e", "v", "i", "s", "e", "d">>

KwCritical == <<"c", "r", "i", "t", "i", "c", "a", "l">>

\* what a judge may print
OutApproved == <<"A", "p", "p", "r", "o", "v", "e", "d">>

OutNeedsChanges == <<"N", "E", "E", "D", "S", " ", "C", "H", "A", "N", "G", "E", "S">>

OutProblematic == <<"P", "r", "o", "b", "l", "e", "m", "a", "t", "i", "c">>

OutCritical == <<"C", "r", "i", "t", "i", "c", "a", "l">>

OutBlocking == <<"b", "l", "o", "c", "k", "i", "n", "g">>

JudgeOutputs ==
    { <<>>, OutApproved, OutNeedsChanges, <<"R", "e", "q", "u", "i", "r", "e", "s", " ", "c", "h", "a", "n", "g", "e", "s">>,
      <<"d", "o", "e", "s", " ", "n", "o", "t", " ", "m", "e", "e", "t">>, OutProblematic,
      <<"i", "s", "s", "u", "e", "s", " ", "f", "o", "u", "n", "d">>,
        <<"m", "u", "s", "t", " ", "b", "e", " ", "f", "i", "x", "e", "d">>,
        <<"s", "h", "o", "u", "l", "d", " ", "b", "e", " ", "r", "e", "v", "i", "s", "e", "d">>, OutCritical, <<"m", "u", "s", "t", " ", "f", "i", "x">>, OutBlocking }

\* what the implementing agent may print
OutDone == <<"d", "o", "n", "e">>

ImplementOutputs ==
    { OutDone, <<"s", "e", "s", "s", "i", "o", "n", "_", "i", "d", ":", " ", "s", "1">>,
      <<"S", "e", "s", "s", "i", "o", "n", "-", "I", "d", " ", "s", "2">>,
      <<"s", "e", "s", "s", "i", "o", "n", " ", "i", "d", ":", " ", "s", "1">>,
      <<"s", "e", "s", "s", "i", "o", "n", "i", "d", ":", "s", "2", ".">> }

KwSession == <<"s", "e", "s", "s", "i", "o", "n">>

KwId == <<"i", "d">>

\* the character classes of /session[_-]?id[:\s]+([a-zA-Z0-9-_]+)/i
IsIdChar(c) ==
    \/ \E n \in Letters : c = Upper[n] \/ c = Lower[n]
    \/ c \in {"0", "1", "2", "3", "4", "5", "6", "7", "8", "9"}
    \/ c \in {"-", "_"}

IsSeparator(c) == c \in {":", " ", "\t", "\n"}

\* the class [\w\-\/] of the skill paths
IsPathChar(c) == IsIdChar(c) \/ c = "/"

\* the first position from n on whose character is not of the class
\* (Len(s) + 1 when there is none)
RECURSIVE SkipWhile(_, _, _)
SkipWhile(s, n, class) ==
    IF n <= Len(s) /\ \/ class = "id" /\ IsIdChar(s[n])
                      \/ class = "sep" /\ IsSeparator(s[n])
                      \/ class = "path" /\ IsPathChar(s[n])
    THEN SkipWhile(s, n + 1, class)
    ELSE n

\* the text at position n: does s hold k from position n on
At(s, n, k) == n + Len(k) - 1 <= Len(s) /\ SubSeq(s, n, n + Len(k) - 1) = k

\* the capture of a match of the pattern that starts at position n, or <<>>
SessionIdMatchAt(output, n) ==
    LET lower == toLowerCase(output)
        a == n + Len(KwSession)
        b == IF a <= Len(lower) /\ lower[a] \in {"_", "-"} THEN a + 1 ELSE a
        c == b + Len(KwId)
        d == SkipWhile(lower, c, "sep")
        e == SkipWhile(output, d, "id")
    IN  IF At(lower, n, KwSession) /\ At(lower, b, KwId) /\ d > c /\ e > d
        THEN SubSeq(output, d, e - 1)
        ELSE <<>>

\* extractSessionId: the capture of the leftmost match, <<>> for undefined
extractSessionId(output) ==
    LET starts == {n \in 1 .. Len(output) : SessionIdMatchAt(output, n) # <<>>}
    IN  IF starts = {} THEN <<>>
        ELSE SessionIdMatchAt(output, CHOOSE n \in starts : \A m \in starts : n <= m)

\* --------------------------------------------------------- session store
\* The session file of a worktree: absent, or holding some text.
S1 == <<"s", "1">>

SessionIds == {S1, <<"s", "2">>}

NoSessionFile == [exists |-> FALSE, content |-> <<>>]

SessionFile(text) == [exists |-> TRUE, content |-> text]

\* what an earlier invocation, or an editor, left in the session file
EarlierSession == SessionFile(<<" ", "s", "0", "\n">>)

IsSpace(c) == c \in {" ", "\t", "\n", "\r"}

\* String.prototype.trim
trim(s) ==
    LET kept == {n \in 1 .. Len(s) : ~IsSpace(s[n])}
    IN  IF kept = {} THEN <<>>
        ELSE SubSeq(s, CHOOSE n \in kept : \A m \in kept : n <= m,
                       CHOOSE n \in kept : \A m \in kept : n >= m)

\* saveSessionId: the directory is created when missing, the id written as is
saveSessionId(file, sessionId) == SessionFile(sessionId)

\* a value of type `string | undefined`
NoSessionId == [defined |-> FALSE, text |-> <<>>]

Defined(text) == [defined |-> TRUE, text |-> text]

orUndefinedKept(text) == Defined(text)

\* `text || undefined`: the empty string is falsy
orUndefined(text) == IF text = <<>> THEN NoSessionId ELSE Defined(text)

\* loadSessionId: undefined without a file or with a blank one, else the
\* trimmed content of the file
loadSessionIdResult(file) ==
    IF ~file.exists THEN NoSessionId ELSE orUndefined(trim(file.content))

\* loadSessionId, with <<>> standing for undefined
loadSessionId(file) == loadSessionIdResult(file).text

\* clearSessionId: an existing session file is overwritten with the empty
\* text, a missing one is left missing
clearSessionId(file) == IF file.exists THEN SessionFile(<<>>) ELSE file

\* syncAgentsToWorktree: `rm(<worktree>/.ralph, {recursive, force})`, then the
\* directory is created again and the bundled _agents copied into it
syncAgentsToWorktree(file) == NoSessionFile

\* -------------------------------------------------------- config: issue ids
\* `trimmedId.length > 100`
MaxIssueIdLength == 100

\* the reserved git names
ReservedIds ==
    { <<"h", "e", "a", "d">>, <<"m", "a", "s", "t", "e", "r">>, <<"m", "a", "i", "n">>,
      <<".", "g", "i", "t">>, <<"g", "i", "t">> }

validateIssueIdUnbounded(id) ==
    LET trimmedId == trim(id)
    IN  IF trimmedId = <<>> THEN "empty"
        ELSE IF includes(trimmedId, <<".", ".">>) \/ includes(trimmedId, <<"/">>)
                    \/ includes(trimmedId, <<"\\">>) THEN "path"
        ELSE IF \E n \in 1 .. Len(trimmedId) : ~IsIdChar(trimmedId[n]) THEN "charset"
        ELSE IF toLowerCase(trimmedId) \in ReservedIds THEN "reserved"
        ELSE "ok"

\* validateIssueId: "ok" when it returns, else the error it throws; the
\* checks are made on the trimmed id, in this order
validateIssueId(id) ==
    LET trimmedId == trim(id)
    IN  IF trimmedId = <<>> THEN "empty"
        ELSE IF includes(trimmedId, <<".", ".">>) \/ includes(trimmedId, <<"/">>)
                    \/ includes(trimmedId, <<"\\">>) THEN "path"
        ELSE IF \E n \in 1 .. Len(trimmedId) : ~IsIdChar(trimmedId[n]) THEN "charset"
        ELSE IF toLowerCase(trimmedId) \in ReservedIds THEN "reserved"
        ELSE IF Len(trimmedId) > MaxIssueIdLength THEN "length"
        ELSE "ok"

\* n times the character c
Repeat(c, n) == [k \in 1 .. n |-> c]

\* the ids of the tests, and ids at and around the length limit
ShortIds ==
    { <<"H", "L", "N", "-", "1", "2", "3">>, <<"I", "S", "S", "U", "E", "_", "1">>,
      <<"a">>, <<"-">>, <<>>, <<" ", " ">>, <<" ", "H", "L", "N", "-", "1", "\n">>,
      <<".", ".", "/", "e", "t", "c">>, <<"f", "o", "o", "/", "b", "a", "r">>,
      <<"f", "o", "o", "\\", "b", "a", "r">>, <<"a", ".", ".", "b">>,
      <<"i", "s", "s", "u", "e", "@", "1">>, <<"i", "s", "s", "u", "e", " ", "1">>,
      <<"a", ".", "b">>, <<"H", "E", "A", "D">>, <<"M", "a", "i", "n">>,
      <<"m", "a", "s", "t", "e", "r">>, <<".", "g", "i", "t">>, <<"g", "i", "t">>,
      <<"G", "i", "T">>, <<"m", "a", "i", "n", "s">> }

LongIds ==
    { Repeat("a", n) : n \in (MaxIssueIdLength - 1) .. (MaxIssueIdLength + 2) }
    \cup { Repeat("a", n) \o <<c>> :
             n \in {MaxIssueIdLength - 1, MaxIssueIdLength},
             c \in {"/", "\\", "@", ".", " ", "-", "_", "Z", "9"} }
    \cup { <<" ">> \o Repeat("b", MaxIssueIdLength), Repeat(" ", MaxIssueIdLength + 1),
           Repeat("a", MaxIssueIdLength - 1) \o <<".", ".">>,
           <<"/">> \o Repeat("a", MaxIssueIdLength + 1) }

IssueIds == ShortIds \cup LongIds

\* ------------------------------------------------------ config: issue names
\* issueToBranchName
issueToBranchName(issueId) == <<"r", "a", "l", "p", "h", "-">> \o issueId

issueToWorktreeNameAsIs(issueId) == issueId

\* issueToWorktreeName
issueToWorktreeName(issueId) == toLowerCase(issueId)

\* spawn: the worktree of an issue is rootDir/<worktree name>
WorktreeDirOf(issueId) == <<"/">> \o issueToWorktreeName(issueId)

\* ids that differ in case, in a prefix, or not at all from one another
NameIds ==
    { <<"H", "L", "N", "-", "1">>, <<"h", "l", "n", "-", "1">>, <<"H", "l", "n", "-", "1">>,
      <<"a", "b", "c", "-", "4">>, <<"A", "_", "b">>, <<"a", "-", "b">>,
      <<"r", "a", "l", "p", "h", "-", "X">>, <<"M", "a", "i", "n">>, <<"a", "/", "B">>,
      <<"X">>, <<"x", "1">> }

\* ----------------------------------------------------------- config: text
\* the character U+0060, which a string of this notation cannot hold
Backtick == "backtick"

\* the placeholders of a step configuration
PhId == <<"$", "{", "i", "s", "s", "u", "e", ".", "i", "d", "}">>

PhTitle == <<"$", "{", "i", "s", "s", "u", "e", ".", "t", "i", "t", "l", "e", "}">>

PhDescription == <<"$", "{", "i", "s", "s", "u", "e", ".", "d", "e", "s", "c", "r", "i", "p", "t", "i", "o", "n", "}">>

\* the least element of a non-empty set of positions
First(positions) == CHOOSE n \in positions : \A m \in positions : n <= m

\* GetSubstitution of String.prototype.replace for a pattern without capture
\* groups: in the replacement string `$$` stands for `$`, `$&` for the
\* matched text, "$`" for the text before the match and `$'` for the text
\* after it; every other character stands for itself
RECURSIVE GetSubstitution(_, _, _, _, _)
GetSubstitution(replacement, k, matched, before, after) ==
    LET special == {n \in k .. (Len(replacement) - 1) :
                       /\ replacement[n] = "$"
                       /\ replacement[n + 1] \in {"$", "&", Backtick, "'"}}
    IN  IF special = {} THEN SubSeq(replacement, k, Len(replacement))
        ELSE LET n == First(special)
             IN  SubSeq(replacement, k, n - 1)
                 \o (CASE replacement[n + 1] = "$" -> <<"$">>
                       [] replacement[n + 1] = "&" -> matched
                       [] replacement[n + 1] = Backtick -> before
                       [] OTHER -> after)
                 \o GetSubstitution(replacement, n + 2, matched, before, after)

\* str.replace(/pattern/g, replacement) from position n on, for a pattern
\* that is a literal text: the matches are taken from left to right in str
RECURSIVE replaceFrom(_, _, _, _)
replaceFrom(str, n, pattern, replacement) ==
    LET starts == {m \in n .. Len(str) : At(str, m, pattern)}
    IN  IF starts = {} THEN SubSeq(str, n, Len(str))
        ELSE LET m == First(starts)
             IN  SubSeq(str, n, m - 1)
                 \o GetSubstitution(replacement, 1, pattern, SubSeq(str, 1, m - 1),
                                    SubSeq(str, m + Len(pattern), Len(str)))
                 \o replaceFrom(str, m + Len(pattern), pattern, replacement)

\* substituteVariables: three global replacements, one after the other
substituteVariables(template, i) ==
    replaceFrom(replaceFrom(replaceFrom(template, 1, PhId, i.id), 1, PhTitle, i.title),
                1, PhDescription, i.description)

\* templates and issue fields
IdHln1 == <<"H", "L", "N", "-", "1">>

TitlePlain == <<"F", "i", "x">>

DescriptionLines == <<"l", "i", "n", "e", "\n", "{", "b", "}", " ", "$", "{", "v", "a", "r", "s", "}">>

Templates ==
    { <<"$", "{", "i", "s", "s", "u", "e", ".", "i", "d", "}", ":", " ", "$", "{", "i", "s", "s", "u", "e", ".", "t", "i", "t", "l", "e", "}", "\n", "$", "{", "i", "s", "s", "u", "e", ".", "d", "e", "s", "c", "r", "i", "p", "t", "i", "o", "n", "}">>,
      <<"$", "{", "i", "s", "s", "u", "e", ".", "i", "d", "}", " ", "a", "n", "d", " ", "$", "{", "i", "s", "s", "u", "e", ".", "i", "d", "}">>,
      <<"N", "o", " ", "{", "v", "a", "r", "i", "a", "b", "l", "e", "s", "}", " ", "h", "e", "r", "e">>}

IssueTexts ==
    { [id |-> IdHln1, title |-> t, description |-> d] :
        t \in {TitlePlain, <<"\"", "a", "\"", " ", "<", "b", ">">>,
          <<"S", "e", "e", " ", "$", "{", "i", "s", "s", "u", "e", ".", "d", "e", "s", "c", "r", "i", "p", "t", "i", "o", "n", "}">>},
        d \in { DescriptionLines, <<"c", "o", "s", "t", "s", " ", "$", "$", "5">>, <<"a", " ", "$", "&", " ", "b">>, <<"i", "t", "'", "s", " ", "5", "$", "'">>,
                <<"a", "s", " ", "$", "{", "i", "s", "s", "u", "e", ".", "i", "d", "}">> } }

\* ------------------------------------------------------ stage executors
Stages == {"spawn", "research", "plan", "validate", "implement", "review", "publish"}

MAX_RETRIES == 1

\* `_thoughts/<dir>/<issueId>_<topic>.md`
ArtifactPath(dir, i, topic) == [dir |-> dir, issueId |-> i, topic |-> topic]

\* issueToTopicName(context.issue.title), the topic of the expected file
ExpectedTopic == "topic"

\* a file `<issueId>_<topic>.md` of an output directory, and the directory
File(i, topic, text) == [issueId |-> i, topic |-> topic, text |-> text]

NoDir == [exists |-> FALSE, files |-> {}]

Dir(files) == [exists |-> TRUE, files |-> files]

\* `new Glob(issueId + "_*.md").scan(dir)`: the files of the issue
globScan(dir, i) == {f \in dir.files : f.issueId = i}

\* One invocation of an agent as its caller observes it: whether the step
\* configuration loaded (and the agents were synced), the exit code and the
\* stdout of the process, and the stage's output directory afterwards.
AgentRun(cfg, code, out, dir) ==
    [configOk |-> cfg, exitCode |-> code, stdout |-> out, dir |-> dir]

ConfigFails == AgentRun(FALSE, 0, <<>>, NoDir)

\* what a stage executor hands back: a StepResult (ValidateResult,
\* ReviewResult), or an exception that escapes it.  sessionId <<>> stands
\* for undefined.
StageResult(ok, needs, kind) ==
    [status |-> "returned", success |-> ok, needsChanges |-> needs, hasContext |-> FALSE,
     sessionId |-> <<>>, feedbackFile |-> FALSE, message |-> Msg(kind, 0, Undefined)]

StageThrew == [StageResult(FALSE, FALSE, "exception") EXCEPT !.status = "thrown"]

\* what is recorded of an invocation besides its result: the agent runs it
\* observed, how many times it ran the agent, and (Implement) the session id
\* it read from the store, the one it resumed and the feedback it appended
Details(input, n, loaded, resume, appended) ==
    [input |-> input, agentRuns |-> n, loaded |-> loaded, resume |-> resume,
     appended |-> appended]

NoDetails == Details(<<>>, 0, <<>>, <<>>, <<>>)

NoStage == [stage |-> "none", result |-> StageResult(FALSE, FALSE, ""), details |-> NoDetails]

\* ------------------------------------------------------------------ spawn
\* the setup commands extractSetupCommands looks for in the README, in the
\* order runSetupAndTests runs them
SetupCommands == <<"install", "build", "test">>

\* how `sh -c command` ends under runShellCommand
CommandOutcomes == {"ok", "fail", "timeout"}

\* One invocation of spawn as it observes its surroundings: whether the
\* worktree exists, is created, cannot be created, or git cannot be run at
\* all; whether the worktree has a README.md and it can be read; the commands
\* the README declares; and how each command would end if it were run.
SpawnRun(worktree, readme, declared, outcome) ==
    [worktree |-> worktree, readme |-> readme, declared |-> declared, outcome |-> outcome]

SpawnInputs ==
    { SpawnRun(w, r, d, o) :
        w \in {"exists", "created"}, r \in {"present"},
        d \in SUBSET {"install", "build", "test"},
        o \in [{"install", "build", "test"} -> CommandOutcomes] }
    \cup { SpawnRun(w, r, {}, [c \in {"install", "build", "test"} |-> "ok"]) :
             w \in {"exists", "created"}, r \in {"absent", "unreadable"} }
    \cup { SpawnRun(w, "absent", {}, [c \in {"install", "build", "test"} |-> "ok"]) :
             w \in {"create_failed", "throws"} }

\* runShellCommand: success only when the command exits 0 in time; a
\* non-zero exit and a timeout are both caught and returned as failures
runShellCommand(o, command) == o.outcome[command] = "ok"

\* the declared commands in the order of the three `if (commands.x)` blocks
DeclaredInOrder(o) == SelectSeq(SetupCommands, LAMBDA c : c \in o.declared)

ranCommandsAll(o) == DeclaredInOrder(o)

\* the commands runSetupAndTests runs: each declared one in turn, up to and
\* including the first that fails
ranCommands(o) ==
    LET seq == DeclaredInOrder(o)
        failed == {k \in 1 .. Len(seq) : ~runShellCommand(o, seq[k])}
    IN  IF failed = {} THEN seq
        ELSE SubSeq(seq, 1, CHOOSE k \in failed : \A m \in failed : k <= m)

\* runSetupAndTests: the context is built before the README commands run, so
\* a failed command returns success=false together with the context
runSetupAndTests(o) ==
    LET ran == ranCommands(o)
        last == IF ran = <<>> THEN "none" ELSE ran[Len(ran)]
    IN  IF o.readme = "absent"
        THEN [result |-> [StageResult(TRUE, FALSE, "spawn_ok_no_readme") EXCEPT
                             !.hasContext = TRUE],
              ran |-> <<>>]
        ELSE IF o.readme = "unreadable" THEN [result |-> StageThrew, ran |-> <<>>]
        ELSE IF ran # <<>> /\ ~runShellCommand(o, last)
        THEN [result |-> [StageResult(FALSE, FALSE, "spawn_" \o last \o "_failed") EXCEPT
                             !.hasContext = TRUE],
              ran |-> ran]
        ELSE [result |-> [StageResult(TRUE, FALSE, "spawn_ok") EXCEPT !.hasContext = TRUE],
              ran |-> ran]

\* spawn: the result, and the setup commands that were run, in order
spawn(o) ==
    CASE o.worktree = "throws" -> [result |-> StageThrew, ran |-> <<>>]
      [] o.worktree = "create_failed" ->
            [result |-> StageResult(FALSE, FALSE, "spawn_worktree_failed"), ran |-> <<>>]
      [] OTHER -> runSetupAndTests(o)

SpawnResults == {spawn(o).result : o \in SpawnInputs}

\* -------------------------------------------------- spawn: command timeout
DEFAULT_COMMAND_TIMEOUT_MS == 300000

\* the value of a decimal digit, -1 for any other character
DigitValue(c) ==
    CASE c = "0" -> 0 [] c = "1" -> 1 [] c = "2" -> 2 [] c = "3" -> 3 [] c = "4" -> 4
      [] c = "5" -> 5 [] c = "6" -> 6 [] c = "7" -> 7 [] c = "8" -> 8 [] c = "9" -> 9
      [] OTHER -> -1

\* the number whose decimal digits are s[1 .. n]
RECURSIVE DecimalValue(_, _)
DecimalValue(s, n) == IF n = 0 THEN 0 ELSE 10 * DecimalValue(s, n - 1) + DigitValue(s[n])

\* Number.parseInt(s, 10): leading whitespace is skipped, a sign is taken,
\* then the longest run of digits is the number and whatever follows it is
\* ignored; NaN when there is no digit at that place
parseInt(s) ==
    LET solid == {n \in 1 .. Len(s) : ~IsSpace(s[n])}
        a == IF solid = {} THEN Len(s) + 1 ELSE First(solid)
        signed == a <= Len(s) /\ s[a] \in {"+", "-"}
        b == IF signed THEN a + 1 ELSE a
        stops == {n \in b .. Len(s) : DigitValue(s[n]) < 0}
        e == IF stops = {} THEN Len(s) + 1 ELSE First(stops)
        magnitude == DecimalValue(SubSeq(s, b, e - 1), e - b)
    IN  IF e = b THEN [isNaN |-> TRUE, value |-> 0]
        ELSE [isNaN |-> FALSE,
              value |-> IF signed /\ s[a] = "-" THEN 0 - magnitude ELSE magnitude]

\* getCommandTimeout, given process.env.RALPH_COMMAND_TIMEOUT_MS
getCommandTimeout(env) ==
    IF env.defined /\ env.text # <<>>
    THEN LET parsed == parseInt(env.text)
         IN  IF ~parsed.isNaN /\ parsed.value > 0 THEN parsed.value
             ELSE DEFAULT_COMMAND_TIMEOUT_MS
    ELSE DEFAULT_COMMAND_TIMEOUT_MS

\* values of the environment variable: those of the tests, and texts that
\* begin with digits without being a number
TimeoutEnvs ==
    { NoSessionId, Defined(<<>>), Defined(<<"6", "0", "0", "0", "0">>),
      Defined(<<"n", "o", "t", "-", "a", "-", "n", "u", "m", "b", "e", "r">>),
      Defined(<<"-", "1", "0", "0", "0">>), Defined(<<"0">>),
      Defined(<<"3", "6", "0", "0", "0", "0", "0">>), Defined(<<"1", "0", "0", "0">>),
      Defined(<<"1", "0", "0", "0", "m", "s">>), Defined(<<"1", "2", ".", "5">>),
      Defined(<<"5", " ", "m", "i", "n">>), Defined(<<"0", "x", "1", "0">>),
      Defined(<<"u", "n", "d", "e", "f", "i", "n", "e", "d">>), Defined(<<"7">>) }

\* the output directory of a builder stage after an agent run
BuilderDirs(i) ==
    { NoDir, Dir({}), Dir({File("HLN-0", ExpectedTopic, <<>>)}),
      Dir({File(i, "other", <<>>)}), Dir({File(i, ExpectedTopic, <<>>)}) }

BuilderRuns(i) ==
    {ConfigFails, AgentRun(TRUE, 1, <<>>, NoDir)}
    \cup {AgentRun(TRUE, 0, <<>>, d) : d \in BuilderDirs(i)}

\* the runs a builder stage may observe, one per attempt
BuilderInputs(i) == {<<a, b>> : a \in BuilderRuns(i), b \in BuilderRuns(i)}

\* `<Stage> failed after 2 attempts. Expected file: <expectedFile>`
BuilderFailed(dir, kind, i) ==
    [StageResult(FALSE, FALSE, kind) EXCEPT
        !.message = [Msg(kind, MAX_RETRIES + 1, Undefined) EXCEPT
                        !.file = ArtifactPath(dir, i, ExpectedTopic)]]

builderRetriesSpent(attempt) == attempt > MAX_RETRIES

\* research and plan: `for (attempt = 0; attempt <= MAX_RETRIES; attempt++)`.
\* run<Stage>Step turns a failure to load the configuration into a failed
\* step; check<Stage>FileExists scans the output directory outside any try,
\* and the scan of a missing directory rejects (ENOENT).
RECURSIVE builderAttempts(_, _, _, _, _, _)
builderAttempts(dir, okKind, failKind, i, obs, attempt) ==
    IF builderRetriesSpent(attempt)
    THEN [result |-> BuilderFailed(dir, failKind, i), agentRuns |-> 0]
    ELSE LET o == obs[attempt + 1]
             ran == IF o.configOk THEN 1 ELSE 0
             rest == builderAttempts(dir, okKind, failKind, i, obs, attempt + 1)
         IN  IF o.configOk /\ o.exitCode = 0
             THEN IF ~o.dir.exists
                  THEN [result |-> StageThrew, agentRuns |-> ran]
                  ELSE IF globScan(o.dir, i) # {}
                  THEN [result |-> StageResult(TRUE, FALSE, okKind), agentRuns |-> ran]
                  ELSE [rest EXCEPT !.agentRuns = @ + ran]
             ELSE [rest EXCEPT !.agentRuns = @ + ran]

research(i, obs) ==
    builderAttempts("research", "research_ok", "research_failed_after", i, obs, 0)

plan(i, obs) == builderAttempts("plan", "plan_ok", "plan_failed_after", i, obs, 0)

\* research and plan, tabulated over the issues and the runs they may observe
ResearchTable == [i \in Issues |-> [obs \in BuilderInputs(i) |-> research(i, obs)]]

PlanTable == [i \in Issues |-> [obs \in BuilderInputs(i) |-> plan(i, obs)]]

\* checkIfNeedsChanges (validate)
\* (variant: the output is searched as printed, not lower-cased)
checkIfNeedsChangesCaseSensitive(output) ==
    \/ includes(output, KwNeedsChanges)
    \/ includes(output, KwRequiresChanges)
    \/ includes(output, KwDoesNotMeet)
    \/ includes(output, KwProblematic)
    \/ includes(output, KwIssuesFound)
    \/ includes(output, KwMustBeFixed)
    \/ includes(output, KwShouldBeRevised)

checkIfNeedsChanges(output) ==
    LET lowerOutput == toLowerCase(output)
    IN  \/ includes(lowerOutput, KwNeedsChanges)
        \/ includes(lowerOutput, KwRequiresChanges)
        \/ includes(lowerOutput, KwDoesNotMeet)
        \/ includes(lowerOutput, KwProblematic)
        \/ includes(lowerOutput, KwIssuesFound)
        \/ includes(lowerOutput, KwMustBeFixed)
        \/ includes(lowerOutput, KwShouldBeRevised)

JudgeRuns(outputs, dirs) ==
    {ConfigFails} \cup {AgentRun(TRUE, code, out, d) : code \in {0, 1}, out \in outputs, d \in dirs}

ValidateInputs == JudgeRuns(JudgeOutputs, {NoDir})

\* validate
validate(o) ==
    IF ~o.configOk THEN StageResult(FALSE, FALSE, "validate_error")
    ELSE LET needsChanges == checkIfNeedsChanges(o.stdout)
         IN  IF o.exitCode = 0 /\ ~needsChanges THEN StageResult(TRUE, FALSE, "validate_ok")
             ELSE IF needsChanges THEN StageResult(TRUE, TRUE, "validate_needs_changes")
             ELSE StageResult(FALSE, FALSE, "validate_failed")

\* validate, tabulated over the runs it may observe
ValidateTable == [o \in ValidateInputs |-> validate(o)]

\* checkIfNeedsCodeChanges: the keywords looked for in stdout, and those
\* looked for in the review file when stdout has none
checkIfNeedsCodeChanges(output, feedbackFile, content) ==
    LET lowerOutput == toLowerCase(output)
        lowerContent == toLowerCase(content)
        outputNeedsChanges ==
            \/ includes(lowerOutput, KwNeedsChanges)
            \/ includes(lowerOutput, KwRequiresChanges)
            \/ includes(lowerOutput, KwDoesNotMeet)
            \/ includes(lowerOutput, KwCritical)
            \/ includes(lowerOutput, KwMustBeFixed)
            \/ includes(lowerOutput, KwIssuesFound)
    IN  IF outputNeedsChanges THEN TRUE
        ELSE IF feedbackFile
        THEN \/ includes(lowerContent, KwCritical)
             \/ includes(lowerContent, <<"m", "u", "s", "t", " ", "f", "i", "x">>)
             \/ includes(lowerContent, <<"b", "l", "o", "c", "k", "i", "n", "g">>)
             \/ includes(lowerContent, KwNeedsChanges)
        ELSE FALSE

ReviewOutputs == {OutApproved, OutNeedsChanges, OutProblematic, OutCritical}

ReviewTexts == {<<>>, OutProblematic, OutCritical, OutBlocking}

\* the code-review directory after the judge ran
ReviewDirs(i) ==
    {NoDir, Dir({})} \cup {Dir({File(i, ExpectedTopic, text)}) : text \in ReviewTexts}

ReviewInputs(i) == JudgeRuns(ReviewOutputs, ReviewDirs(i))

\* the text of the review file checkReviewFileExists finds (<<>> if none)
ReviewFileText(dir, i) ==
    IF globScan(dir, i) = {} THEN <<>> ELSE (CHOOSE f \in globScan(dir, i) : TRUE).text

\* review: the scan of the code-review directory is inside the try, so that
\* a missing directory gives a failed step
review(i, o) ==
    IF ~o.configOk \/ ~o.dir.exists THEN StageResult(FALSE, FALSE, "review_error")
    ELSE LET feedbackFile == globScan(o.dir, i) # {}
             needsChanges ==
                 checkIfNeedsCodeChanges(o.stdout, feedbackFile, ReviewFileText(o.dir, i))
         IN  IF o.exitCode = 0 /\ ~needsChanges
             THEN [StageResult(TRUE, FALSE, "review_ok") EXCEPT !.feedbackFile = feedbackFile]
             ELSE IF needsChanges
             THEN [StageResult(TRUE, TRUE, "review_needs_changes") EXCEPT
                      !.feedbackFile = feedbackFile]
             ELSE StageResult(FALSE, FALSE, "review_failed")

\* getReviewFeedback(feedbackFile) || undefined: the text of the file
getReviewFeedback(dir, i) == ReviewFileText(dir, i)

\* review, tabulated over the issues and the runs it may observe
ReviewTable == [i \in Issues |-> [o \in ReviewInputs(i) |-> review(i, o)]]

ImplementInputs ==
    {ConfigFails}
    \cup {AgentRun(TRUE, code, out, NoDir) : code \in {0, 1}, out \in ImplementOutputs}

\* extractSessionId, tabulated over what the implementing agent may print
ExtractTable == [out \in ImplementOutputs \cup {<<>>} |-> extractSessionId(out)]

\* (variants: resuming whenever a session id is known; the session id
\* persisted only when the agent succeeded)
ResumesWithoutFeedback(reviewFeedback, sessionId) == sessionId # <<>>

Resumes(reviewFeedback, sessionId) == reviewFeedback # <<>> /\ sessionId # <<>>

PersistsOnSuccess(finalSessionId, code) == finalSessionId # <<>> /\ code = 0

Persists(finalSessionId, code) == finalSessionId # <<>>

\* implement, lines 17-30: the agents are synced into the worktree, and the
\* session id is read from the store when the context has none
implementLoads(c, file) ==
    LET synced == syncAgentsToWorktree(file)
    IN  [store |-> synced,
         loaded |-> IF c.sessionId # <<>> THEN <<>> ELSE loadSessionId(synced)]

\* implement, lines 32-68: the agent is run, resuming when there is feedback
\* and a session id, and the final session id is saved to the session file,
\* which is `file` by now
implementRuns(c, loaded, file, reviewFeedback, o) ==
    LET sessionId == IF c.sessionId # <<>> THEN c.sessionId ELSE loaded
        resumes == Resumes(reviewFeedback, sessionId)
        extractedSessionId == ExtractTable[o.stdout]
        finalSessionId == IF extractedSessionId # <<>> THEN extractedSessionId ELSE sessionId
    IN  [result |->
            [StageResult(o.exitCode = 0, FALSE,
                         IF o.exitCode = 0 THEN "implement_ok" ELSE "implement_failed")
                EXCEPT !.sessionId = finalSessionId],
         store |->
            IF Persists(finalSessionId, o.exitCode)
            THEN saveSessionId(file, finalSessionId)
            ELSE file,
         details |->
            Details(<<o>>, 1, loaded,
                    IF resumes THEN sessionId ELSE <<>>,
                    IF resumes THEN reviewFeedback ELSE <<>>)]

\* lines 69-75: what implement returns when the sync or the load of the
\* step configuration threw
ImplementError(o) ==
    [result |-> StageResult(FALSE, FALSE, "implement_error"),
     details |-> Details(<<o>>, 0, <<>>, <<>>, <<>>)]

\* implement(context, reviewFeedback) on a worktree whose session file is
\* `file`: what it returns, what it leaves in the session file, and how it
\* invoked the agent
implement(c, file, reviewFeedback, o) ==
    LET begun == implementLoads(c, file)
    IN  IF ~o.configOk
        THEN [result |-> ImplementError(o).result, store |-> begun.store,
              details |-> ImplementError(o).details]
        ELSE implementRuns(c, begun.loaded, begun.store, reviewFeedback, o)

\* the keywords of checkImplementationComplete

KwIncomplete == <<"i", "n", "c", "o", "m", "p", "l", "e", "t", "e">>

\* what the judge of Publish may print: the two verdicts its prompt asks for,
\* and others
OutReadyForPr == <<"A", "l", "l", " ", "i", "t", "e", "m", "s", " ", "i", "m", "p", "l", "e", "m", "e", "n", "t", "e", "d", " ", "-", " ", "r", "e", "a", "d", "y", " ", "f", "o", "r", " ", "P", "R">>

PublishOutputs ==
    { OutReadyForPr, <<"I", "m", "p", "l", "e", "m", "e", "n", "t", "a", "t", "i", "o", "n", " ", "i", "n", "c", "o", "m", "p", "l", "e", "t", "e", ":", " ", "t", "e", "s", "t", "s">>,
      <<"M", "i", "s", "s", "i", "n", "g", " ", "t", "e", "s", "t", "s">>,
      <<"V", "e", "r", "i", "f", "i", "e", "d">>}

PullRequests == {"https://github.com/o/r/pull/1"}

\* `gh pr create` failed
NoPullRequest == ""

\* One invocation of publish as it observes its environment: whether gh is on
\* the PATH, the run of its judge, and what `gh pr create` would give.
PublishRun(gh, cfg, code, out, pr) ==
    AgentRun(cfg, code, out, NoDir) @@ [ghExists |-> gh, pr |-> pr]

PublishInputs ==
    { PublishRun(FALSE, TRUE, 0, OutReadyForPr, NoPullRequest),
      PublishRun(TRUE, FALSE, 0, <<>>, NoPullRequest) }
    \cup { PublishRun(TRUE, TRUE, code, out, pr) :
              code \in {0, 1}, out \in PublishOutputs, pr \in PullRequests \cup {NoPullRequest} }

\* what is recorded of a Publish invocation: the loads of its configuration,
\* the runs of its judge and the attempts to create the pull request
PublishDetails(o, loads, runs, prs) ==
    Details(<<o>>, runs, <<>>, <<>>, <<>>) @@ [configLoads |-> loads, prAttempts |-> prs]

\* checkImplementationComplete
checkImplementationComplete(output) ==
    LET lowerOutput == toLowerCase(output)
    IN  \/ includes(lowerOutput, <<"c", "o", "m", "p", "l", "e", "t", "e">>)
        \/ includes(lowerOutput, <<"a", "l", "l", " ", "i", "t", "e", "m", "s", " ", "i", "m", "p", "l", "e", "m", "e", "n", "t", "e", "d">>)
        \/ includes(lowerOutput, <<"r", "e", "a", "d", "y", " ", "f", "o", "r", " ", "p", "r">>)
        \/ includes(lowerOutput, <<"m", "e", "e", "t", "s", " ", "q", "u", "a", "l", "i", "t", "y", " ", "b", "a", "r">>)
        \/ (~includes(lowerOutput, KwIncomplete) /\ ~includes(lowerOutput, <<"m", "i", "s", "s", "i", "n", "g">>))

\* `if (!ghExists)`
\* (variant: the test for gh left out)
ghMissingIgnored(o) == FALSE

ghMissing(o) == ~o.ghExists

\* publish: the message of a success names the pull request gh created
publish(o) ==
    IF ghMissing(o)
    THEN [result |-> StageResult(FALSE, FALSE, "publish_gh_required"),
          details |-> PublishDetails(o, 0, 0, 0)]
    ELSE IF ~o.configOk
    THEN [result |-> StageResult(FALSE, FALSE, "publish_error"),
          details |-> PublishDetails(o, 1, 0, 0)]
    ELSE IF o.exitCode # 0
    THEN [result |-> StageResult(FALSE, FALSE, "publish_verification_failed"),
          details |-> PublishDetails(o, 1, 1, 0)]
    ELSE IF ~checkImplementationComplete(o.stdout)
    THEN [result |-> StageResult(FALSE, FALSE, "publish_incomplete"),
          details |-> PublishDetails(o, 1, 1, 0)]
    ELSE IF o.pr # NoPullRequest
    THEN [result |-> [StageResult(TRUE, FALSE, "publish_ok") EXCEPT !.message.ref = o.pr],
          details |-> PublishDetails(o, 1, 1, 1)]
    ELSE [result |-> StageResult(FALSE, FALSE, "publish_pr_failed"),
          details |-> PublishDetails(o, 1, 1, 1)]

\* publish, tabulated over what it may observe
PublishTable == [o \in PublishInputs |-> publish(o)]

\* ---------------------------------------------------- config: skill files
SkillPrefix == <<".", "r", "a", "l", "p", "h", "/", "_", "a", "g", "e", "n", "t", "s", "/", "s", "k", "i", "l", "l", "s", "/">>

MdSuffix == <<".", "m", "d">>

SkillA == <<".", "r", "a", "l", "p", "h", "/", "_", "a", "g", "e", "n", "t", "s", "/", "s", "k", "i", "l", "l", "s", "/", "r", "p", "i", "/", "s", "k", "i", "l", "l", ".", "m", "d">>

SkillB == <<".", "r", "a", "l", "p", "h", "/", "_", "a", "g", "e", "n", "t", "s", "/", "s", "k", "i", "l", "l", "s", "/", "r", "e", "v", "i", "e", "w", ".", "m", "d">>

\* the end of the match of /\.ralph\/_agents\/skills\/[\w\-\/]+\.md/ that
\* starts at position n, or 0: the path characters exclude the dot, so a
\* match ends with the first `.md` that follows them
SkillPathEndAt(text, n) ==
    LET a == n + Len(SkillPrefix)
        b == SkipWhile(text, a, "path")
    IN  IF At(text, n, SkillPrefix) /\ b > a /\ At(text, b, MdSuffix)
        THEN b + Len(MdSuffix) - 1
        ELSE 0

\* text.match(skillPathRegex): the matches from position n on, left to right
RECURSIVE matchSkillPaths(_, _)
matchSkillPaths(text, n) ==
    LET starts == {m \in n .. Len(text) : SkillPathEndAt(text, m) > 0}
    IN  IF starts = {} THEN <<>>
        ELSE LET m == First(starts)
             IN  <<SubSeq(text, m, SkillPathEndAt(text, m))>>
                 \o matchSkillPaths(text, SkillPathEndAt(text, m) + 1)

\* [...new Set(matches)]: each match once, in the order of first occurrence
RECURSIVE Unique(_)
Unique(matches) ==
    IF matches = <<>> THEN <<>>
    ELSE LET front == Unique(SubSeq(matches, 1, Len(matches) - 1))
             last == matches[Len(matches)]
         IN  IF \E k \in 1 .. Len(front) : front[k] = last THEN front ELSE Append(front, last)

extractSkillPaths(text) == Unique(matchSkillPaths(text, 1))

\* a worktree as loadStepConfig sees it: whether its directory was passed,
\* and the skill files that exist in it
Worktree(given, files) == [given |-> given, files |-> files]

\* validateSkillPaths: the paths that do not exist, which the error names
\* (variant: the check stops at the first path that does not exist)
validateSkillPathsFirstOnly(prompt, worktree) ==
    LET skillPaths == extractSkillPaths(prompt)
        absent == {k \in 1 .. Len(skillPaths) : skillPaths[k] \notin worktree.files}
    IN  IF absent = {} THEN <<>>
        ELSE <<skillPaths[CHOOSE k \in absent : \A m \in absent : k <= m]>>

validateSkillPaths(prompt, worktree) ==
    LET skillPaths == extractSkillPaths(prompt)
        exists(skillPath) == skillPath \in worktree.files
    IN  SelectSeq(skillPaths, LAMBDA skillPath : ~exists(skillPath))

\* a step configuration: whether the file is there with front matter and a
\* command, and its body
StepConfigFile(usable, body) == [usable |-> usable, body |-> body]

\* loadStepConfig: the rendered prompt, or the error thrown
loadStepConfig(config, i, worktree) ==
    LET substitutedPrompt == substituteVariables(config.body, i)
        missingPaths ==
            IF worktree.given THEN validateSkillPaths(substitutedPrompt, worktree) ELSE <<>>
    IN  IF ~config.usable
        THEN [ok |-> FALSE, error |-> "config_file", missing |-> <<>>, prompt |-> <<>>]
        ELSE IF missingPaths # <<>>
        THEN [ok |-> FALSE, error |-> "skill_files_not_found", missing |-> missingPaths,
              prompt |-> <<>>]
        ELSE [ok |-> TRUE, error |-> "", missing |-> <<>>, prompt |-> substitutedPrompt]

Bodies ==
    { <<"R", "e", "s", "e", "a", "r", "c", "h", " ", "$", "{", "i", "s", "s", "u", "e", ".", "i", "d", "}">>,
      <<"U", "s", "e", " ", Backtick, ".", "r", "a", "l", "p", "h", "/", "_", "a", "g", "e", "n", "t", "s", "/", "s", "k", "i", "l", "l", "s", "/", "r", "p", "i", "/", "s", "k", "i", "l", "l", ".", "m", "d", Backtick, ".">>,
      <<"U", "s", "e", " ", ".", "r", "a", "l", "p", "h", "/", "_", "a", "g", "e", "n", "t", "s", "/", "s", "k", "i", "l", "l", "s", "/", "r", "p", "i", "/", "s", "k", "i", "l", "l", ".", "m", "d", ",", " ", ".", "r", "a", "l", "p", "h", "/", "_", "a", "g", "e", "n", "t", "s", "/", "s", "k", "i", "l", "l", "s", "/", "r", "e", "v", "i", "e", "w", ".", "m", "d", " ", "a", "n", "d", " ", ".", "r", "a", "l", "p", "h", "/", "_", "a", "g", "e", "n", "t", "s", "/", "s", "k", "i", "l", "l", "s", "/", "r", "p", "i", "/", "s", "k", "i", "l", "l", ".", "m", "d">>,
      <<"U", "s", "e", " ", Backtick, "_", "a", "g", "e", "n", "t", "s", "/", "s", "k", "i", "l", "l", "s", "/", "r", "e", "v", "i", "e", "w", ".", "m", "d", Backtick>>,
      <<"D", "o", ":", " ", "$", "{", "i", "s", "s", "u", "e", ".", "d", "e", "s", "c", "r", "i", "p", "t", "i", "o", "n", "}">>}

StepConfigFiles == {StepConfigFile(TRUE, body) : body \in Bodies} \cup {StepConfigFile(FALSE, <<>>)}

ConfigIssues ==
    { [id |-> IdHln1, title |-> TitlePlain, description |-> d] :
        d \in {DescriptionLines, <<"a", "s", " ", "i", "n", " ", ".", "r", "a", "l", "p", "h", "/", "_", "a", "g", "e", "n", "t", "s", "/", "s", "k", "i", "l", "l", "s", "/", "r", "e", "v", "i", "e", "w", ".", "m", "d", ".", "b", "a", "k">>} }

SkillFiles == {SkillA, SkillB}

\* ---------------------------------------------------------- runWorkflow
Verdict(r) == IF ~r.success THEN "fail" ELSE IF r.needsChanges THEN "needs" ELSE "ok"

\* spawn, lines 31-37 and 53-59: the context spawn creates
NoContext ==
    [created |-> FALSE, planValidationAttempts |-> 0, codeReviewAttempts |-> 0, sessionId |-> <<>>]

CarriedOverContext ==
    [NoContext EXCEPT !.created = TRUE, !.planValidationAttempts = 1, !.codeReviewAttempts = 1]

NewContext == [NoContext EXCEPT !.created = TRUE]

NoLocals == [planValidated |-> FALSE, codeReviewPassed |-> FALSE, reviewFeedback |-> <<>>]

NoCalls == [s \in Stages |-> 0]

\* the loop conditions and the exhaustion tests of runWorkflow
PlanLoopContinuesInverted(validated, attempts) ==
    ~validated /\ attempts > MAX_VALIDATION_ATTEMPTS

PlanLoopContinues(validated, attempts) == ~validated /\ attempts < MAX_VALIDATION_ATTEMPTS

ReviewLoopContinuesOneShort(passed, attempts) ==
    ~passed /\ attempts < MAX_REVIEW_ATTEMPTS - 1

ReviewLoopContinues(passed, attempts) == ~passed /\ attempts < MAX_REVIEW_ATTEMPTS

PlanExhaustedOffByOne(attempts) == attempts > MAX_VALIDATION_ATTEMPTS

PlanExhausted(attempts) == attempts >= MAX_VALIDATION_ATTEMPTS

ReviewExhaustedOffByOne(attempts) == attempts > MAX_REVIEW_ATTEMPTS

ReviewExhausted(attempts) == attempts >= MAX_REVIEW_ATTEMPTS

\* where control goes from the head of the Implement/Review loop
ReviewLoopHead(passed, c) ==
    IF ReviewLoopContinues(passed, c.codeReviewAttempts) THEN "implement" ELSE "publish"

\* where control goes from the head of the Plan/Validate loop
PlanLoopHead(validated, passed, c) ==
    IF PlanLoopContinues(validated, c.planValidationAttempts)
    THEN "plan"
    ELSE ReviewLoopHead(passed, c)

\* the stage executor was invoked and handed back r
Invoked(p, stage, r, d) ==
    /\ calls' = [calls EXCEPT ![p][stage] = @ + 1]
    /\ hist' = [hist EXCEPT ![p] = [stage |-> stage, result |-> r, details |-> d]]

\* runWorkflow returns r (or throws): control passes to run's finally
\* (variant: a message of the orchestrator's own in place of the stage's)
EndsWithOwnMessage(p, r) ==
    /\ result' = [result EXCEPT ![p] = [r EXCEPT !.message = Msg("workflow_failed", 0, Undefined)]]
    /\ pc' = [pc EXCEPT ![p] = "finally"]

Ends(p, r) ==
    /\ result' = [result EXCEPT ![p] = r]
    /\ pc' = [pc EXCEPT ![p] = "finally"]

Continues(p, to) ==
    /\ pc' = [pc EXCEPT ![p] = to]
    /\ UNCHANGED result

lockVars == <<lockFile, clock, issue, view, lockResult>>

\* lines 300-307
Spawn(p) ==
    /\ pc[p] = "spawn"
    /\ \E r \in SpawnResults :
        /\ Invoked(p, "spawn", r, NoDetails)
        /\ ctx' = [ctx EXCEPT ![p] = IF r.hasContext THEN NewContext ELSE @]
        /\ IF r.status = "thrown" THEN Ends(p, Thrown)
           ELSE IF ~r.success \/ ~r.hasContext THEN Ends(p, Returned(FALSE, r.message))
           ELSE Continues(p, "research")
    /\ UNCHANGED <<lockVars, util, loc, vlog, rlog, sessionFile, cli>>

\* lines 309-317
Research(p) ==
    /\ pc[p] = "research"
    /\ \E obs \in BuilderInputs(issue[p]) :
        LET out == ResearchTable[issue[p]][obs]
            r == out.result
        IN  /\ Invoked(p, "research", r, Details(obs, out.agentRuns, <<>>, <<>>, <<>>))
            /\ IF r.status = "thrown" THEN Ends(p, Thrown)
               ELSE IF ~r.success THEN Ends(p, Returned(FALSE, r.message))
               ELSE Continues(p, PlanLoopHead(loc[p].planValidated, loc[p].codeReviewPassed,
                                              ctx[p]))
    /\ UNCHANGED <<lockVars, util, ctx, loc, vlog, rlog, sessionFile, cli>>

\* lines 318-323
Plan(p) ==
    /\ pc[p] = "plan"
    /\ \E obs \in BuilderInputs(issue[p]) :
        LET out == PlanTable[issue[p]][obs]
            r == out.result
        IN  /\ Invoked(p, "plan", r, Details(obs, out.agentRuns, <<>>, <<>>, <<>>))
            /\ IF r.status = "thrown" THEN Ends(p, Thrown)
               ELSE IF ~r.success THEN Ends(p, Returned(FALSE, r.message))
               ELSE Continues(p, "validate")
    /\ UNCHANGED <<lockVars, util, ctx, loc, vlog, rlog, sessionFile, cli>>

PlanExhaustedResult ==
    Returned(FALSE, Msg("plan_validation_failed_after", MAX_VALIDATION_ATTEMPTS, Undefined))

\* lines 325-352
Validate(p) ==
    /\ pc[p] = "validate"
    /\ \E o \in ValidateInputs :
        LET r == ValidateTable[o]
            c == [ctx[p] EXCEPT !.planValidationAttempts = @ + 1]
            validated == r.success /\ ~r.needsChanges
        IN  /\ Invoked(p, "validate", r,
                       Details(<<o>>, IF o.configOk THEN 1 ELSE 0, <<>>, <<>>, <<>>))
            /\ vlog' = [vlog EXCEPT ![p] = Append(@, Verdict(r))]
            /\ ctx' = [ctx EXCEPT ![p] = c]
            /\ loc' = [loc EXCEPT ![p].planValidated = validated]
            /\ IF ~r.success THEN Ends(p, Returned(FALSE, r.message))
               ELSE IF r.needsChanges /\ PlanExhausted(c.planValidationAttempts)
               THEN Ends(p, PlanExhaustedResult)
               ELSE Continues(p, PlanLoopHead(validated, loc[p].codeReviewPassed, c))
    /\ UNCHANGED <<lockVars, util, rlog, sessionFile, cli>>

\* ------------------------------------------------- the lock file and sync
\* Paths below the root directory, as sequences of their components.
\* getLockFilePath(rootDir)
LockFilePath == <<".ralph", "lock">>

ContextWorktreeDirAtRoot(i) == <<>>

\* context.worktreeDir of the run for issue i: `${rootDir}/${worktreeName}`
ContextWorktreeDir(i) == <<i>>

\* the lock file after syncAgentsToWorktree(worktreeDir) of the run for
\* issue i: `rm(worktreeDir/.ralph, {recursive, force})` removes every file
\* whose path lies under that directory
lockFileAfterSync(file, i) ==
    LET ralphDir == ContextWorktreeDir(i) \o <<".ralph">>
    IN  IF Len(LockFilePath) >= Len(ralphDir)
              /\ SubSeq(LockFilePath, 1, Len(ralphDir)) = ralphDir
        THEN NoFile
        ELSE file

\* (variant: the session id Implement returned is not put in the context)
ContextAfterImplementUnthreaded(c, r) == c

\* lines 359-361: `if (implementResult.sessionId) context.sessionId = ...`
ContextAfterImplement(c, r) ==
    [c EXCEPT !.sessionId = IF r.sessionId # <<>> THEN r.sessionId ELSE @]

\* lines 353-362
Implement(p) ==
    /\ pc[p] = "implement"
    /\ \E o \in ImplementInputs :
        LET out == implement(ctx[p], sessionFile[issue[p]], loc[p].reviewFeedback, o)
            r == out.result
        IN  /\ Invoked(p, "implement", r, out.details)
            /\ sessionFile' = [sessionFile EXCEPT ![issue[p]] = out.store]
            /\ IF ~r.success
               THEN Ends(p, Returned(FALSE, r.message)) /\ UNCHANGED ctx
               ELSE /\ ctx' = [ctx EXCEPT ![p] = ContextAfterImplement(@, r)]
                    /\ Continues(p, "review")
    /\ lockFile' = lockFileAfterSync(lockFile, issue[p])
    /\ UNCHANGED <<clock, issue, view, lockResult, util, loc, vlog, rlog, cli>>

ReviewExhaustedResult ==
    Returned(FALSE, Msg("code_review_failed_after", MAX_REVIEW_ATTEMPTS, Undefined))

\* lines 364-391; review syncs the agents into the worktree before anything
\* else
Review(p) ==
    /\ pc[p] = "review"
    /\ \E o \in ReviewInputs(issue[p]) :
        LET r == ReviewTable[issue[p]][o]
            c == [ctx[p] EXCEPT !.codeReviewAttempts = @ + 1]
            passed == r.success /\ ~r.needsChanges
            fb == IF r.success /\ r.needsChanges /\ r.feedbackFile
                  THEN getReviewFeedback(o.dir, issue[p])
                  ELSE loc[p].reviewFeedback
        IN  /\ Invoked(p, "review", r,
                       Details(<<o>>, IF o.configOk THEN 1 ELSE 0, <<>>, <<>>, <<>>))
            /\ rlog' = [rlog EXCEPT ![p] = Append(@, Verdict(r))]
            /\ ctx' = [ctx EXCEPT ![p] = c]
            /\ loc' = [loc EXCEPT ![p].codeReviewPassed = passed, ![p].reviewFeedback = fb]
            /\ sessionFile' = [sessionFile EXCEPT ![issue[p]] = syncAgentsToWorktree(@)]
            /\ IF ~r.success THEN Ends(p, Returned(FALSE, r.message))
               ELSE IF r.needsChanges /\ ReviewExhausted(c.codeReviewAttempts)
               THEN Ends(p, ReviewExhaustedResult)
               ELSE Continues(p, ReviewLoopHead(passed, c))
    /\ lockFile' = lockFileAfterSync(lockFile, issue[p])
    /\ UNCHANGED <<clock, issue, view, lockResult, util, vlog, cli>>

\* (variant: the message of a completed run leaves the pull request out)
WorkflowCompletedBare(m) == Msg("workflow_completed", 0, Undefined)

\* `Workflow completed: ${publishResult.message}`
WorkflowCompleted(m) == [Msg("workflow_completed", 0, Undefined) EXCEPT !.ref = m.ref]

\* lines 393-405
Publish(p) ==
    /\ pc[p] = "publish"
    /\ \E o \in PublishInputs :
        LET r == PublishTable[o].result
        IN  /\ Invoked(p, "publish", r, PublishTable[o].details)
            /\ IF ~r.success THEN Ends(p, Returned(FALSE, r.message))
               ELSE Ends(p, Returned(TRUE, WorkflowCompleted(r.message)))
    /\ UNCHANGED <<lockVars, util, ctx, loc, vlog, rlog, sessionFile, cli>>

\* ------------------------------------------- run, seen from the lock side
\* `return await runWorkflow(...)` as the lock manager sees it: the call
\* returns a StepResult or throws, and control passes to the finally block
WorkflowOutcomes ==
    { Returned(TRUE, Msg("completed", 0, Undefined)),
      Returned(FALSE, Msg("failed", 0, Undefined)),
      Thrown }

RunWorkflowEnds(p) ==
    /\ pc[p] = "spawn"
    /\ \E r \in WorkflowOutcomes : result' = [result EXCEPT ![p] = r]
    /\ pc' = [pc EXCEPT ![p] = "finally"]
    /\ UNCHANGED <<lockFile, clock, issue, view, lockResult, wfVars>>

LockStep(p) ==
    \/ RunStart(p)
    \/ AcqExists(p)
    \/ AcqStale(p)
    \/ AcqUnlink(p)
    \/ AcqRead(p)
    \/ AcqWrite(p)
    \/ RelExists(p)
    \/ RelRead(p)
    \/ RelUnlink(p)

InitLock ==
    /\ lockFile \in {NoFile, Corrupt}
    /\ clock = 1
    /\ pc = [p \in Procs |-> "idle"]
    /\ issue \in IssueAssignments
    /\ view = [p \in Procs |-> "none"]
    /\ lockResult = [p \in Procs |-> NoLockResult]
    /\ result = [p \in Procs |-> NoResult]
    /\ ctx = [p \in Procs |-> NoContext]
    /\ loc = [p \in Procs |-> NoLocals]
    /\ calls = [p \in Procs |-> NoCalls]
    /\ hist = [p \in Procs |-> NoStage]
    /\ vlog = [p \in Procs |-> <<>>]
    /\ rlog = [p \in Procs |-> <<>>]
    /\ sessionFile = [i \in Issues |-> NoSessionFile]
    /\ cli = <<>>
    /\ util = NoCall

NextLock ==
    \/ \E p \in Procs : LockStep(p)
    \/ \E p \in Procs : RunWorkflowEnds(p)
    \/ \E p \in Procs : Kill(p)
    \/ ForceRemove

SpecLock == InitLock /\ [][NextLock]_vars

\* ------------------------------------------------------ one run in full
\* The process whose run is followed stage by stage.  The root is as earlier
\* invocations left it: no lock file, an unparsable one, or the record of
\* another invocation that is still running or was killed; or a record this
\* process wrote itself through an earlier acquireLock call.
Self == 1

EarlierCommands == {"run", "spawn"}

EarlierLocks == {LockInfo(q, 0, i, c) : q \in Procs, i \in Issues, c \in EarlierCommands}

Init ==
    /\ lockFile \in {NoFile, Corrupt} \cup EarlierLocks
    /\ clock = 1
    /\ pc \in [Procs -> {"idle", "spawn", "dead"}]
    /\ \A q \in Procs :
          pc[q] # "idle" <=> (q # Self /\ lockFile.kind = "lock" /\ lockFile.pid = q)
    /\ issue \in IssueAssignments
    /\ view = [p \in Procs |-> "none"]
    /\ lockResult = [p \in Procs |-> NoLockResult]
    /\ result = [p \in Procs |-> NoResult]
    /\ ctx = [p \in Procs |-> NoContext]
    /\ loc = [p \in Procs |-> NoLocals]
    /\ calls = [p \in Procs |-> NoCalls]
    /\ hist = [p \in Procs |-> NoStage]
    /\ vlog = [p \in Procs |-> <<>>]
    /\ rlog = [p \in Procs |-> <<>>]
    /\ sessionFile \in {[i \in Issues |-> f] : f \in {NoSessionFile, EarlierSession}}
    /\ cli = <<>>
    /\ util = NoCall

Next ==
    \/ LockStep(Self)
    \/ Spawn(Self)
    \/ Research(Self)
    \/ Plan(Self)
    \/ Validate(Self)
    \/ Implement(Self)
    \/ Review(Self)
    \/ Publish(Self)

Spec == Init /\ [][Next]_vars

\* ----------------------------------------------- `ralph implement` alone
\* The implement subcommand of the CLI: the payload is read, a context is
\* created from the issue (createContextFromIssue: no sessionId), the text of
\* the --feedback file is read when the option is given, and implement is
\* called.  No lock is taken.  Each invocation is a process of its own.
MaxCliCalls == 2

\* an invocation that awaits its agent, and one that has exited; `overlapped`
\* tells whether another invocation on the same worktree ran meanwhile
CliRunning(i, reviewFeedback, loaded, overlapped) ==
    [issueId |-> i, reviewFeedback |-> reviewFeedback, phase |-> "running",
     overlapped |-> overlapped, result |-> NoStage.result,
     details |-> Details(<<>>, 0, loaded, <<>>, <<>>), stored |-> <<>>]

CliCall(call, out, file) ==
    [call EXCEPT !.phase = "ended", !.result = out.result, !.details = out.details,
                 !.stored = loadSessionId(file)]

\* the invocations that await their agent in the worktree of issue i
CliRunningOn(i) == {k \in 1 .. Len(cli) : cli[k].phase = "running" /\ cli[k].issueId = i}

\* the command up to the point where implement awaits the agent: sync, load
\* of the step configuration (cfg: whether it succeeds), read of the session
\* store.  When the load fails the command exits at once.
ImplementCommandBegins(i, reviewFeedback, cfg) ==
    /\ Len(cli) < MaxCliCalls
    /\ LET begun == implementLoads(NewContext, sessionFile[i])
           overlapped == CliRunningOn(i) # {}
           call == CliRunning(i, reviewFeedback, begun.loaded, overlapped)
           others == [k \in 1 .. Len(cli) |->
                         IF k \in CliRunningOn(i) THEN [cli[k] EXCEPT !.overlapped = TRUE]
                         ELSE cli[k]]
       IN  /\ sessionFile' = [sessionFile EXCEPT ![i] = begun.store]
           /\ cli' = <<IF cfg THEN call
                       ELSE CliCall(call, ImplementError(ConfigFails), begun.store)>> \o others
    /\ UNCHANGED <<lockVars, util, pc, result, ctx, loc, calls, hist, vlog, rlog>>

\* the agent of invocation k has exited: the session id is saved and the
\* command exits
ImplementCommandEnds(k, o) ==
    /\ k \in 1 .. Len(cli) /\ cli[k].phase = "running"
    /\ o.configOk
    /\ LET i == cli[k].issueId
           out == implementRuns(NewContext, cli[k].details.loaded, sessionFile[i],
                                cli[k].reviewFeedback, o)
       IN  /\ cli' = [cli EXCEPT ![k] = CliCall(@, out, out.store)]
           /\ sessionFile' = [sessionFile EXCEPT ![i] = out.store]
    /\ UNCHANGED <<lockVars, util, pc, result, ctx, loc, calls, hist, vlog, rlog>>

InitImplement ==
    /\ InitLock
    /\ lockFile = NoFile
    /\ issue = [p \in Procs |-> "HLN-1"]

NextImplement ==
    \/ \E i \in Issues, reviewFeedback \in ReviewTexts, cfg \in BOOLEAN :
          ImplementCommandBegins(i, reviewFeedback, cfg)
    \/ \E k \in 1 .. MaxCliCalls, o \in ImplementInputs : ImplementCommandEnds(k, o)

SpecImplement == InitImplement /\ [][NextImplement]_vars

\* ------------------------------------------------ the configuration loader
\* Calls of the functions of utils/config.ts, on templates, issues and
\* worktrees drawn from small sets.
\* substituteVariables(template, i) is called
SubstituteVariables(template, i) ==
    /\ util' = [op |-> "substituteVariables", template |-> template, issue |-> i,
                out |-> substituteVariables(template, i)]
    /\ UNCHANGED <<lockVars, pc, result, ctx, loc, calls, hist, vlog, rlog, sessionFile, cli>>


\* the stage executors that pass the worktree directory to loadStepConfig
PassesWorktreeDir(stage) == stage \in {"implement", "review", "publish"}

\* what a stage executor returns, and how often it ran its agent, when its
\* configuration loads as `load` says and the agent then does its work
StageAfterLoad(stage, load) ==
    CASE stage = "validate" ->
            [result |-> validate(AgentRun(load.ok, 0, OutApproved, NoDir)),
             agentRuns |-> IF load.ok THEN 1 ELSE 0]
      [] stage = "implement" ->
            LET out == implement(NewContext, NoSessionFile, <<>>,
                                 AgentRun(load.ok, 0, OutDone, NoDir))
            IN  [result |-> out.result, agentRuns |-> out.details.agentRuns]
      [] stage = "review" ->
            [result |-> review("HLN-1", AgentRun(load.ok, 0, OutApproved, Dir({}))),
             agentRuns |-> IF load.ok THEN 1 ELSE 0]
      [] stage = "publish" ->
            LET out == publish(PublishRun(TRUE, load.ok, 0, OutReadyForPr,
                                          CHOOSE u \in PullRequests : TRUE))
            IN  [result |-> out.result, agentRuns |-> out.details.agentRuns]

\* a stage executor is invoked on a worktree with the skill files `files`
\* and loads the step configuration `config`
StageLoadsConfig(stage, config, i, files) ==
    /\ LET worktree == Worktree(PassesWorktreeDir(stage), files)
           load == loadStepConfig(config, i, worktree)
           out == StageAfterLoad(stage, load)
       IN  util' = [op |-> "stage", stage |-> stage, config |-> config, issue |-> i,
                    worktree |-> worktree, load |-> load, result |-> out.result,
                    agentRuns |-> out.agentRuns]
    /\ UNCHANGED <<lockVars, pc, result, ctx, loc, calls, hist, vlog, rlog, sessionFile, cli>>

InitConfig ==
    /\ InitLock
    /\ lockFile = NoFile
    /\ issue = [p \in Procs |-> "HLN-1"]

\* validateIssueId(id) is called
ValidateIssueId(id) ==
    /\ util' = [op |-> "validateIssueId", id |-> id, out |-> validateIssueId(id)]
    /\ UNCHANGED <<lockVars, pc, result, ctx, loc, calls, hist, vlog, rlog, sessionFile, cli>>

\* the names of two issues are derived, and derived again from the names
IssueNames(a, b) ==
    /\ util' = [op |-> "names", ids |-> <<a, b>>,
                accepted |-> [k \in 1 .. 2 |-> validateIssueId(<<a, b>>[k]) = "ok"],
                worktree |-> [k \in 1 .. 2 |-> issueToWorktreeName(<<a, b>>[k])],
                branch |-> [k \in 1 .. 2 |-> issueToBranchName(<<a, b>>[k])],
                worktreeAgain |->
                    [k \in 1 .. 2 |-> issueToWorktreeName(issueToWorktreeName(<<a, b>>[k]))],
                branchAgain |->
                    [k \in 1 .. 2 |-> issueToBranchName(issueToBranchName(<<a, b>>[k]))],
                dir |-> [k \in 1 .. 2 |-> WorktreeDirOf(<<a, b>>[k])]]
    /\ UNCHANGED <<lockVars, pc, result, ctx, loc, calls, hist, vlog, rlog, sessionFile, cli>>

NextConfig ==
    \/ \E template \in Templates, i \in IssueTexts : SubstituteVariables(template, i)
    \/ \E id \in IssueIds : ValidateIssueId(id)
    \/ \E a \in NameIds, b \in NameIds : IssueNames(a, b)
    \/ \E stage \in {"validate", "implement", "review", "publish"}, config \in StepConfigFiles,
            i \in ConfigIssues, files \in SUBSET SkillFiles :
          StageLoadsConfig(stage, config, i, files)

SpecConfig == InitConfig /\ [][NextConfig]_vars


\* ================================================================ claims
\* pcs at which a run holds the lock and executes its stages
StagePcs == Stages

Holding(p) == pc[p] \in StagePcs

\* pcs at which runWorkflow has ended and run is in, or past, its finally
EndPcs == {"finally", "rel_read", "rel_unlink", "done"}

\* process q takes the step that ends its acquireLock call
AcquireReturns(q) == pc[q] \in InAcquire /\ pc'[q] \notin (InAcquire \cup {"dead"})

\* process p takes a step inside releaseLock
ReleaseStep(p) == pc[p] \in {"finally", "rel_read", "rel_unlink"} /\ pc'[p] \notin {pc[p], "dead"}

\* the lock file holds the record the run of p wrote
HoldsRecordOf(p) == lockFile.kind = "lock" /\ lockFile.pid = p /\ lockFile.startedAt >= 1

\* C1. For any interleaving of run invocations by distinct live processes on
\* one root, at most one of them is between a successful acquireLock and its
\* release, executing stages.
MutualExclusion == Cardinality({p \in Procs : Holding(p)}) <= 1

\* C2. Whenever run acquired the lock, once run has returned or thrown the
\* lock file that run wrote no longer exists.
ReleasedOnReturn ==
    \A p \in Procs : pc[p] = "done" /\ lockResult[p].acquired => ~HoldsRecordOf(p)

\* a run that acquired the lock has ended by an exception escaping a stage
ReleasedOnReturnWitness ==
    \E p \in Procs :
        /\ pc[p] = "done" /\ lockResult[p].acquired /\ result[p] = Thrown
        /\ lockFile.kind = "absent"

\* C3. A killed holder leaves its lock file on disk, and the next acquireLock
\* of another process that finds it (and is not interleaved with other calls)
\* ends with acquired=true and the caller's own record in the file.
CrashedHolderReclaimed ==
    [][ /\ \A p \in Procs : pc[p] \notin NotRunning /\ pc'[p] = "dead" => lockFile' = lockFile
        /\ \A q \in Procs :
              view[q] = "stale" /\ AcquireReturns(q) =>
                  /\ pc'[q] = "spawn"
                  /\ lockResult'[q].acquired
                  /\ lockFile' = LockInfo(q, clock, issue[q], "run") ]_vars

\* a process was killed holding the lock and another one took the lock over
CrashedHolderReclaimedWitness ==
    \E p, q \in Procs :
        /\ pc[p] = "dead" /\ lockResult[p].acquired
        /\ pc[q] = "spawn" /\ view[q] = "stale" /\ HoldsRecordOf(q)

\* C4. releaseLock deletes the lock file only when the pid recorded in it is
\* the caller's; a release by a non-owner, or with no lock file, leaves the
\* lock file as it is; under any interleaving with other processes' calls.
ReleaseOnlyOwnLock ==
    [][ \A p \in Procs :
          ReleaseStep(p) =>
              \/ lockFile' = lockFile
              \/ lockFile.kind = "lock" /\ lockFile.pid = p /\ lockFile'.kind = "absent" ]_vars

\* C5. acquireLock on a lock file whose recorded pid is alive (the caller's
\* own pid included) returns acquired=false with existingLock equal to the
\* stored record, and leaves the lock file as it is.
LiveLockRefused ==
    [][ \A q \in Procs :
          view[q] = "live" /\ pc[q] \in InAcquire /\ pc'[q] \notin {pc[q], "dead"} =>
              /\ lockFile.kind = "lock"
              /\ lockFile' = lockFile
              /\ AcquireReturns(q) =>
                    /\ pc'[q] = "done"
                    /\ lockResult'[q] = LockResult(FALSE, lockFile)
                    /\ result'[q] = LockHeldResult(lockFile) ]_vars

\* the caller's own earlier lock refused it: the lock is not re-entrant
LiveLockRefusedWitness ==
    \E q \in Procs :
        /\ pc[q] = "done" /\ view[q] = "live"
        /\ lockFile.kind = "lock" /\ lockFile.pid = q
        /\ lockResult[q] = LockResult(FALSE, lockFile)

\* C6. acquireLock on a lock file whose recorded pid is not alive, or that
\* does not parse, returns acquired=true with no existingLock, and the file
\* then records the caller's pid, issueId and command and nothing else.
StaleLockReplaced ==
    [][ \A q \in Procs :
          view[q] \in {"stale", "corrupt"} /\ AcquireReturns(q) =>
              /\ pc'[q] = "spawn"
              /\ lockResult'[q] = LockResult(TRUE, Undefined)
              /\ lockFile' = LockInfo(q, clock, issue[q], "run") ]_vars

\* a stale record of another issue was replaced by the caller's record
StaleLockReplacedWitness ==
    \E q \in Procs :
        /\ pc[q] = "spawn" /\ view[q] = "stale" /\ issue[q] = "HLN-1"
        /\ lockFile = LockInfo(q, 1, "HLN-1", "run")

\* C7. In every state of a run both attempt counters are between 0 and 4;
\* they are 0 when spawn creates the context and never decrease.
AttemptCountersBounded ==
    /\ [](\A p \in Procs :
            /\ ctx[p].planValidationAttempts \in 0 .. 4
            /\ ctx[p].codeReviewAttempts \in 0 .. 4)
    /\ [][ \A p \in Procs :
             /\ ctx'[p].planValidationAttempts >= ctx[p].planValidationAttempts
             /\ ctx'[p].codeReviewAttempts >= ctx[p].codeReviewAttempts
             /\ (~ctx[p].created /\ ctx'[p].created =>
                    ctx'[p].planValidationAttempts = 0 /\ ctx'[p].codeReviewAttempts = 0) ]_vars

\* both counters have reached their maximum
AttemptCountersBoundedWitness ==
    \E p \in Procs : ctx[p].planValidationAttempts = 4 /\ ctx[p].codeReviewAttempts = 4

FourNeeds == <<"needs", "needs", "needs", "needs">>

\* C8. Validate reporting needsChanges on four consecutive cycles ends the
\* run after exactly 4 Plan and 4 Validate invocations, with no Implement,
\* Review or Publish, and with success=false and a message naming 4
\* attempts that is no stage's own message.
PlanLoopExhaustion ==
    \A p \in Procs :
        vlog[p] = FourNeeds =>
            /\ calls[p]["plan"] = 4 /\ calls[p]["validate"] = 4
            /\ calls[p]["implement"] = 0 /\ calls[p]["review"] = 0 /\ calls[p]["publish"] = 0
            /\ pc[p] \in EndPcs
            /\ result[p].status = "returned" /\ ~result[p].success
            /\ result[p].message.kind = "plan_validation_failed_after"
            /\ result[p].message.attempts = 4
            /\ result[p].message # hist[p].result.message

PlanLoopExhaustionWitness ==
    \E p \in Procs : vlog[p] = FourNeeds /\ pc[p] = "done"

\* C9. Review reporting needsChanges on four consecutive cycles ends the run
\* after exactly 4 Implement and 4 Review invocations, without Publish, with
\* success=false; and no run invokes Implement or Review more than 4 times.
ReviewLoopExhaustion ==
    \A p \in Procs :
        /\ calls[p]["implement"] <= 4 /\ calls[p]["review"] <= 4
        /\ rlog[p] = FourNeeds =>
              /\ calls[p]["implement"] = 4 /\ calls[p]["review"] = 4
              /\ calls[p]["publish"] = 0
              /\ pc[p] \in EndPcs
              /\ result[p].status = "returned" /\ ~result[p].success

ReviewLoopExhaustionWitness ==
    \E p \in Procs : rlog[p] = FourNeeds /\ pc[p] = "done"

\* C10. Stages are invoked only in the order Spawn, Research, Plan/Validate
\* cycles, Implement/Review cycles, Publish; the first Implement follows a
\* Validate that returned success without needsChanges, and Publish follows
\* a Review that returned success without needsChanges.
StageOrder ==
    \A p \in Procs :
        LET last == hist[p].stage
            verdict == Verdict(hist[p].result)
        IN  /\ pc[p] = "spawn" => calls[p] = NoCalls
            /\ pc[p] = "research" => last = "spawn"
            /\ pc[p] = "plan" => last \in {"research", "validate"}
            /\ pc[p] = "validate" => last = "plan"
            /\ pc[p] = "implement" =>
                  /\ last \in {"validate", "review"}
                  /\ calls[p]["implement"] = 0 => last = "validate" /\ verdict = "ok"
            /\ pc[p] = "review" => last = "implement"
            /\ pc[p] = "publish" => last = "review" /\ verdict = "ok"

\* Publish is about to be invoked after a second Implement/Review cycle
StageOrderWitness ==
    \E p \in Procs :
        pc[p] = "publish" /\ calls[p]["validate"] = 2 /\ calls[p]["review"] = 2

\* the Validate (Review) invocation process p makes in this step
ValidateStep(p) == calls'[p]["validate"] = calls[p]["validate"] + 1

ReviewStep(p) == calls'[p]["review"] = calls[p]["review"] + 1

ImplementStep(p) == calls'[p]["implement"] = calls[p]["implement"] + 1

\* every judgement but the last one asked for changes
NeedsUntilLast(log) == \A k \in 1 .. (Len(log) - 1) : log[k] = "needs"

\* the run the stage invoked last observed
LastRun(p) == hist[p].details.input[1]

\* C11. Whenever a stage returns success=false the run invokes no further
\* stage and returns success=false with exactly that stage's message; a run
\* that has left runWorkflow invokes no stage.
StageFailureAborts ==
    /\ [](\A p \in Procs :
            hist[p].stage # "none" /\ hist[p].result.status = "returned"
                /\ ~hist[p].result.success =>
                    /\ pc[p] \in EndPcs
                    /\ result[p] = Returned(FALSE, hist[p].result.message))
    /\ [][ \A p \in Procs : pc[p] \in EndPcs => calls'[p] = calls[p] ]_vars

\* Validate failed in the second Plan/Validate cycle and the run ended with
\* Validate's message
StageFailureAbortsWitness ==
    \E p \in Procs :
        /\ pc[p] = "done" /\ hist[p].stage = "validate" /\ calls[p]["plan"] = 2
        /\ result[p] = Returned(FALSE, Msg("validate_failed", 0, Undefined))

\* C12. A Validate (Review) result with success and needsChanges that leaves
\* the counter below 4 does not end the run: Plan (Implement) is invoked
\* next; and when the k-th judgement is the first without needsChanges the
\* loop ends with the counter at k and the run goes on to the next stage.
NeedsChangesContinues ==
    [][ \A p \in Procs :
          /\ ValidateStep(p) /\ Verdict(hist'[p].result) = "needs"
                /\ ctx'[p].planValidationAttempts < 4 =>
                    pc'[p] = "plan" /\ result'[p] = NoResult
          /\ ReviewStep(p) /\ Verdict(hist'[p].result) = "needs"
                /\ ctx'[p].codeReviewAttempts < 4 =>
                    pc'[p] = "implement" /\ result'[p] = NoResult
          /\ ValidateStep(p) /\ Verdict(hist'[p].result) = "ok" =>
                /\ NeedsUntilLast(vlog'[p])
                /\ ctx'[p].planValidationAttempts = Len(vlog'[p])
                /\ pc'[p] = "implement" /\ result'[p] = NoResult
          /\ ReviewStep(p) /\ Verdict(hist'[p].result) = "ok" =>
                /\ NeedsUntilLast(rlog'[p])
                /\ ctx'[p].codeReviewAttempts = Len(rlog'[p])
                /\ pc'[p] = "publish" /\ result'[p] = NoResult ]_vars

\* both loops ended on their fourth judgement
NeedsChangesContinuesWitness ==
    \E p \in Procs :
        /\ pc[p] = "publish"
        /\ vlog[p] = <<"needs", "needs", "needs", "ok">>
        /\ rlog[p] = <<"needs", "needs", "needs", "ok">>
        /\ ctx[p].planValidationAttempts = 4 /\ ctx[p].codeReviewAttempts = 4

\* a run whose Validate and Review each passed at once and whose Publish
\* succeeded
HappyPath(p) ==
    /\ pc[p] \in EndPcs
    /\ vlog[p] = <<"ok">> /\ rlog[p] = <<"ok">>
    /\ hist[p].stage = "publish" /\ hist[p].result.success

\* C13. When every stage succeeds and Validate and Review pass on their
\* first invocation, each of the seven stages is invoked exactly once, both
\* counters end at 1, and the run returns success=true with a message that
\* holds the pull-request reference of Publish's message.
HappyPathOnce ==
    \A p \in Procs :
        HappyPath(p) =>
            /\ \A stage \in Stages : calls[p][stage] = 1
            /\ ctx[p].planValidationAttempts = 1 /\ ctx[p].codeReviewAttempts = 1
            /\ result[p].status = "returned" /\ result[p].success
            /\ result[p].message.ref = hist[p].result.message.ref
            /\ result[p].message.ref \in PullRequests

HappyPathOnceWitness ==
    \E p \in Procs : HappyPath(p) /\ pc[p] = "done" /\ lockFile.kind = "absent"

\* C14. Validate and Review return success=true only if the judge process
\* exited with code 0, whatever it printed.
JudgeSuccessOnlyOnExitZero ==
    \A p \in Procs :
        hist[p].stage \in {"validate", "review"} /\ hist[p].result.success =>
            LastRun(p).configOk /\ LastRun(p).exitCode = 0

\* the agent of every attempt exited 0 (its configuration having loaded)
\* and left no file of the issue in the output directory
NoArtifact(p) ==
    \A k \in 1 .. Len(hist[p].details.input) :
        LET o == hist[p].details.input[k]
        IN  o.configOk /\ o.exitCode = 0 /\ globScan(o.dir, issue[p]) = {}

\* C15. A Research or Plan stage whose agent exits 0 on every invocation
\* without the artifact ever appearing runs the agent exactly 2 times and
\* returns success=false with a message naming the expected artifact path.
BuilderRetriesOnce ==
    \A p \in Procs :
        hist[p].stage \in {"research", "plan"} /\ NoArtifact(p) =>
            /\ hist[p].details.agentRuns = 2
            /\ hist[p].result.status = "returned" /\ ~hist[p].result.success
            /\ hist[p].result.message.file =
                  ArtifactPath(hist[p].stage, issue[p], ExpectedTopic)

\* the vocabulary the judges' verdicts are stated with
ValidateVocabulary ==
    { KwNeedsChanges, KwRequiresChanges, KwDoesNotMeet, KwProblematic, KwIssuesFound,
      KwMustBeFixed, KwShouldBeRevised }

ReviewVocabulary == ValidateVocabulary \cup {KwCritical}

Mentions(text, vocabulary) == \E k \in vocabulary : includes(toLowerCase(text), k)

ValidateMentions == [out \in JudgeOutputs |-> Mentions(out, ValidateVocabulary)]

ReviewMentions == [out \in ReviewOutputs \cup ReviewTexts |-> Mentions(out, ReviewVocabulary)]

\* C16. Validate's needsChanges is true exactly when the judge's stdout
\* contains, in any letter case, one of the seven keywords; with none of
\* them and exit code 0 the result is success=true, needsChanges=false.
ValidateKeywordVerdict ==
    \A p \in Procs :
        hist[p].stage = "validate" =>
            /\ hist[p].result.needsChanges <=> ValidateMentions[LastRun(p).stdout]
            /\ LastRun(p).configOk /\ LastRun(p).exitCode = 0
                  /\ ~ValidateMentions[LastRun(p).stdout] =>
                      hist[p].result.success /\ ~hist[p].result.needsChanges

\* a keyword printed in capitals by a judge that exited non-zero
ValidateKeywordVerdictWitness ==
    \E p \in Procs :
        /\ hist[p].stage = "validate" /\ hist[p].result.needsChanges
        /\ LastRun(p).stdout = OutNeedsChanges /\ LastRun(p).exitCode = 1

\* C17. Review's needsChanges is true exactly when the judge's stdout
\* contains one of the eight keywords or a review artifact of the issue
\* exists whose text contains one of them.
ReviewKeywordVerdict ==
    \A p \in Procs :
        hist[p].stage = "review" /\ LastRun(p).configOk /\ LastRun(p).dir.exists =>
            (hist[p].result.needsChanges <=>
                \/ ReviewMentions[LastRun(p).stdout]
                \/ /\ globScan(LastRun(p).dir, issue[p]) # {}
                   /\ ReviewMentions[ReviewFileText(LastRun(p).dir, issue[p])])

\* the session id Implement knows before it runs the agent: the context's,
\* else the one it read from the session store
KnownSessionId(p) ==
    IF ctx[p].sessionId # <<>> THEN ctx[p].sessionId ELSE hist'[p].details.loaded

SessionIdPersisted ==
    [][ \A p \in Procs :
          ImplementStep(p) /\ hist'[p].details.agentRuns = 1 =>
              LET extracted == ExtractTable[hist'[p].details.input[1].stdout]
                  newest == IF extracted # <<>> THEN extracted ELSE KnownSessionId(p)
              IN  /\ hist'[p].result.sessionId = newest
                  /\ loadSessionId(sessionFile'[issue[p]]) = newest ]_vars

\* the agent failed without printing an id and the known id was kept
SessionIdPersistedWitness ==
    \E p \in Procs :
        /\ pc[p] = "done" /\ hist[p].stage = "implement" /\ calls[p]["implement"] = 2
        /\ LastRun(p).exitCode = 1 /\ LastRun(p).stdout = OutDone
        /\ hist[p].result.sessionId = S1 /\ sessionFile[issue[p]] = SessionFile(S1)

\* C20. The session id an Implement invocation persisted is read back from
\* the session store by the next Implement invocation on the same worktree
\* whose context has no sessionId, which resumes that session when it is
\* given feedback.
SessionReadBack ==
    \A k \in 1 .. (Len(cli) - 1) :
        cli[k].issueId = cli[k + 1].issueId /\ cli[k + 1].stored # <<>>
            /\ cli[k].phase = "ended" /\ cli[k].details.agentRuns = 1
            /\ ~cli[k].overlapped /\ ~cli[k + 1].overlapped =>
                /\ cli[k].details.loaded = cli[k + 1].stored
                /\ cli[k].reviewFeedback # <<>> => cli[k].details.resume = cli[k + 1].stored

\* the text of the feedback artifact the Review invoked last reported
\* (<<>> when it reported none)
ReportedFeedback(p) ==
    IF hist[p].result.feedbackFile THEN ReviewFileText(LastRun(p).dir, issue[p]) ELSE <<>>

\* C21. The feedback passed to an Implement that follows a Review is the text
\* of the feedback artifact that Review reported, never text kept from an
\* earlier Review; the first Implement of a run is passed no feedback.
FeedbackFromLatestReview ==
    [][ \A p \in Procs :
          ImplementStep(p) =>
              IF hist[p].stage = "review"
              THEN loc[p].reviewFeedback = ReportedFeedback(p)
              ELSE loc[p].reviewFeedback = <<>> ]_vars

\* C22. At any time at most one Implement invocation is at work on the
\* session store of a working tree: of the invocations of the standalone
\* `implement` subcommand, no two await their agent in one worktree.
OneImplementPerWorktree == \A i \in Issues : Cardinality(CliRunningOn(i)) <= 1

\* C23. No stage executor lets an exception escape to runWorkflow: whatever
\* fails inside a stage, the stage hands back a StepResult.
NoStageThrows ==
    \A p \in Procs : hist[p].stage # "none" => hist[p].result.status = "returned"

\* C24. When gh is not on the PATH, Publish returns success=false at once:
\* it loads no configuration, runs no judge and attempts no pull request.
GhRequiredFirst ==
    \A p \in Procs :
        hist[p].stage = "publish" /\ ~LastRun(p).ghExists =>
            /\ hist[p].result.status = "returned" /\ ~hist[p].result.success
            /\ hist[p].details.configLoads = 0
            /\ hist[p].details.agentRuns = 0
            /\ hist[p].details.prAttempts = 0

\* the run ended with Publish's message about gh, though everything else
\* would have let the pull request through
GhRequiredFirstWitness ==
    \E p \in Procs :
        /\ pc[p] = "done" /\ hist[p].stage = "publish" /\ ~LastRun(p).ghExists
        /\ LastRun(p).configOk /\ LastRun(p).exitCode = 0
        /\ result[p] = Returned(FALSE, Msg("publish_gh_required", 0, Undefined))

\* C25. Whenever the judge of Publish ran and its stdout contains the keyword
\* `incomplete`, Publish returns success=false and attempts no pull request;
\* a pull request is attempted only when the judge exited 0 and its output is
\* classified complete.
IncompleteBlocksPullRequest ==
    \A p \in Procs :
        hist[p].stage = "publish" =>
            /\ hist[p].details.agentRuns = 1
                  /\ includes(toLowerCase(LastRun(p).stdout), KwIncomplete) =>
                      ~hist[p].result.success /\ hist[p].details.prAttempts = 0
            /\ hist[p].details.prAttempts > 0 =>
                  LastRun(p).exitCode = 0 /\ checkImplementationComplete(LastRun(p).stdout)

\* the text of template with every placeholder replaced by the issue's
\* field as it is, in one pass from left to right
RECURSIVE SinglePass(_, _, _)
SinglePass(template, n, i) ==
    LET starts == {m \in n .. Len(template) :
                      At(template, m, PhId) \/ At(template, m, PhTitle)
                          \/ At(template, m, PhDescription)}
    IN  IF starts = {} THEN SubSeq(template, n, Len(template))
        ELSE LET m == First(starts)
                 ph == IF At(template, m, PhId) THEN PhId
                       ELSE IF At(template, m, PhTitle) THEN PhTitle ELSE PhDescription
                 value == IF ph = PhId THEN i.id
                          ELSE IF ph = PhTitle THEN i.title ELSE i.description
             IN  SubSeq(template, n, m - 1) \o value \o SinglePass(template, m + Len(ph), i)

HasPlaceholder(text) ==
    includes(text, PhId) \/ includes(text, PhTitle) \/ includes(text, PhDescription)

\* C29. substituteVariables replaces every placeholder of the template by
\* the issue's field verbatim, in a single pass: what a value brings in is
\* neither substituted nor interpreted; and when no value holds a placeholder
\* itself, no placeholder is left in the result.
SinglePassSubstitution ==
    util.op = "substituteVariables" =>
        /\ util.out = SinglePass(util.template, 1, util.issue)
        /\ ~HasPlaceholder(util.issue.title) /\ ~HasPlaceholder(util.issue.description) =>
              ~HasPlaceholder(util.out)

\* the skill files the rendered prompt of the stage refers to
ReferencedSkills ==
    {f \in SkillFiles : includes(substituteVariables(util.config.body, util.issue), f)}

UnresolvedSkills == ReferencedSkills \ util.worktree.files

MaxSessionOps == 3

\* the texts handed to saveSessionId
SessionTexts ==
    {<<>>, <<" ", "\n">>, S1, <<" ", "s", "1", " ">>, <<"s", "2", "\n">>, <<"a", " ", "b">>}

SessionLog == IF util.op = "session" THEN util.log ELSE <<>>

SessionCall(op, i, text, out) == [op |-> op, worktree |-> i, text |-> text, out |-> out]

\* saveSessionId(worktree of i, text)
SaveSessionId(i, text) ==
    /\ Len(SessionLog) < MaxSessionOps
    /\ sessionFile' = [sessionFile EXCEPT ![i] = saveSessionId(@, text)]
    /\ util' = [op |-> "session",
                log |-> Append(SessionLog, SessionCall("save", i, text, NoSessionId))]
    /\ UNCHANGED <<lockVars, pc, result, ctx, loc, calls, hist, vlog, rlog, cli>>

\* loadSessionId(worktree of i)
LoadSessionId(i) ==
    /\ Len(SessionLog) < MaxSessionOps
    /\ util' = [op |-> "session",
                log |-> Append(SessionLog,
                               SessionCall("load", i, <<>>, loadSessionIdResult(sessionFile[i])))]
    /\ UNCHANGED <<lockVars, pc, result, ctx, loc, calls, hist, vlog, rlog, sessionFile, cli>>

\* clearSessionId(worktree of i)
ClearSessionId(i) ==
    /\ Len(SessionLog) < MaxSessionOps
    /\ sessionFile' = [sessionFile EXCEPT ![i] = clearSessionId(@)]
    /\ util' = [op |-> "session",
                log |-> Append(SessionLog, SessionCall("clear", i, <<>>, NoSessionId))]
    /\ UNCHANGED <<lockVars, pc, result, ctx, loc, calls, hist, vlog, rlog, cli>>

InitSession ==
    /\ InitLock
    /\ lockFile = NoFile
    /\ issue = [p \in Procs |-> "HLN-1"]

NextSession ==
    \/ \E i \in Issues, text \in SessionTexts : SaveSessionId(i, text)
    \/ \E i \in Issues : LoadSessionId(i)
    \/ \E i \in Issues : ClearSessionId(i)

SpecSession == InitSession /\ [][NextSession]_vars

\* the calls before call k that wrote the session file of worktree i
WritesBefore(k, i) ==
    {j \in 1 .. (k - 1) : SessionLog[j].worktree = i /\ SessionLog[j].op \in {"save", "clear"}}

\* text t is text s without its leading and trailing whitespace
IsTrimOf(t, s) ==
    \E a \in 1 .. (Len(s) + 1), b \in 0 .. Len(s) :
        /\ t = SubSeq(s, a, b)
        /\ \A n \in 1 .. Len(s) : (n < a \/ n > b) => IsSpace(s[n])
        /\ t # <<>> => ~IsSpace(t[1]) /\ ~IsSpace(t[Len(t)])

\* C27. A load returns what the latest write of the worktree's session file
\* left: after save(s) the trimmed s, or nothing when s is empty or only
\* whitespace; nothing when the file was never written; nothing after clear.
\* A load never returns the empty string, and a save overwrites the whole
\* earlier content of the file.
SessionStoreSemantics ==
    /\ \A k \in 1 .. Len(SessionLog) :
          SessionLog[k].op = "load" =>
              LET i == SessionLog[k].worktree
                  out == SessionLog[k].out
                  writes == WritesBefore(k, i)
                  last == SessionLog[CHOOSE j \in writes : \A m \in writes : m <= j]
              IN  /\ out.defined => out.text # <<>>
                  /\ writes = {} => ~out.defined
                  /\ writes # {} /\ last.op = "clear" => ~out.defined
                  /\ writes # {} /\ last.op = "save" =>
                        /\ IsTrimOf(out.text, last.text)
                        /\ out.defined <=> \E n \in 1 .. Len(last.text) : ~IsSpace(last.text[n])
    /\ \A i \in Issues :
          LET writes == WritesBefore(Len(SessionLog) + 1, i)
              last == SessionLog[CHOOSE j \in writes : \A m \in writes : m <= j]
          IN  writes # {} /\ last.op = "save" => sessionFile[i] = SessionFile(last.text)

\* a padded id was saved over an earlier one and then read back trimmed
SessionStoreSemanticsWitness ==
    /\ Len(SessionLog) = 3
    /\ SessionLog[1].op = "save" /\ SessionLog[1].text = <<"a", " ", "b">>
    /\ SessionLog[2].op = "save" /\ SessionLog[2].text = <<" ", "s", "1", " ">>
    /\ SessionLog[3].op = "load" /\ SessionLog[3].out = Defined(S1)
    /\ SessionLog[1].worktree = SessionLog[2].worktree
    /\ SessionLog[2].worktree = SessionLog[3].worktree

\* -------------------------------------------------------- spawn, on its own
\* spawn is called on a worktree and a README drawn from SpawnInputs
SpawnCalled(o) ==
    /\ util' = [op |-> "spawn", input |-> o, result |-> spawn(o).result, ran |-> spawn(o).ran]
    /\ UNCHANGED <<lockVars, pc, result, ctx, loc, calls, hist, vlog, rlog, sessionFile, cli>>

InitSpawn ==
    /\ InitLock
    /\ lockFile = NoFile
    /\ issue = [p \in Procs |-> "HLN-1"]

\* getCommandTimeout is called under an environment
GetCommandTimeout(env) ==
    /\ util' = [op |-> "getCommandTimeout", env |-> env, out |-> getCommandTimeout(env)]
    /\ UNCHANGED <<lockVars, pc, result, ctx, loc, calls, hist, vlog, rlog, sessionFile, cli>>

NextSpawn ==
    \/ \E o \in SpawnInputs : SpawnCalled(o)
    \/ \E env \in TimeoutEnvs : GetCommandTimeout(env)

SpecSpawn == InitSpawn /\ [][NextSpawn]_vars

\* the place of a setup command in the order install, build, test
CommandRank(c) == CHOOSE k \in 1 .. 3 : <<"install", "build", "test">>[k] = c

\* C28. Spawn runs the commands the README declares in the order install,
\* build, test; as soon as one fails or times out it returns success=false
\* and no later command is run; it returns success=true only if every
\* declared command was run and exited 0.
SpawnShortCircuits ==
    util.op = "spawn" /\ util.input.worktree \in {"exists", "created"}
        /\ util.input.readme = "present" =>
            LET ran == util.ran
                o == util.input
            IN  /\ \A k \in 1 .. Len(ran) : ran[k] \in o.declared
                /\ \A j, k \in 1 .. Len(ran) : j < k => CommandRank(ran[j]) < CommandRank(ran[k])
                /\ \A k \in 1 .. Len(ran) :
                      o.outcome[ran[k]] # "ok" =>
                          /\ k = Len(ran)
                          /\ util.result.status = "returned" /\ ~util.result.success
                /\ \A c \in o.declared :
                      (\A k \in 1 .. Len(ran) : ran[k] # c) =>
                          \E k \in 1 .. Len(ran) :
                              /\ CommandRank(ran[k]) < CommandRank(c)
                              /\ o.outcome[ran[k]] # "ok"
                /\ util.result.success =>
                      \A c \in o.declared :
                          /\ \E k \in 1 .. Len(ran) : ran[k] = c
                          /\ o.outcome[c] = "ok"

\* install passed, build timed out, and the declared test command, which
\* would have passed, was not run
SpawnShortCircuitsWitness ==
    /\ util.op = "spawn"
    /\ util.input.declared = {"install", "build", "test"}
    /\ util.input.outcome = [c \in {"install", "build", "test"} |->
                                IF c = "build" THEN "timeout" ELSE "ok"]
    /\ util.ran = <<"install", "build">>
    /\ ~util.result.success

\* the id is made of the characters [A-Za-z0-9_-] only, and of at least one
WellFormedId(id) == id # <<>> /\ \A n \in 1 .. Len(id) : IsIdChar(id[n])

\* ids matching [A-Za-z0-9_-]{1,100} outside the reserved set are accepted
ValidIdsAccepted ==
    util.op = "validateIssueId" /\ WellFormedId(util.id) /\ Len(util.id) <= 100
        /\ toLowerCase(util.id) \notin ReservedIds =>
            util.out = "ok"

\* ids containing `..`, `/` or `\` get the path-traversal error
PathIdsRejected ==
    util.op = "validateIssueId"
        /\ (\E n \in 1 .. Len(util.id) :
               \/ util.id[n] \in {"/", "\\"}
               \/ n < Len(util.id) /\ util.id[n] = "." /\ util.id[n + 1] = ".") =>
            util.out = "path"

\* C30, as stated: valid ids are accepted, ids with path characters get the
\* path-traversal error, and every id longer than 100 characters gets the
\* length error.
IssueIdValidationAsStated ==
    /\ ValidIdsAccepted
    /\ PathIdsRejected
    /\ util.op = "validateIssueId" /\ Len(util.id) > 100 => util.out = "length"

\* C30. Valid ids are accepted, ids with path characters get the
\* path-traversal error, and every id longer than 100 characters that is
\* made of the characters [A-Za-z0-9_-] only gets the length error.
IssueIdValidation ==
    /\ ValidIdsAccepted
    /\ PathIdsRejected
    /\ util.op = "validateIssueId" /\ Len(util.id) > 100 /\ WellFormedId(util.id) =>
          util.out = "length"

\* an id of 101 letters was rejected for its length
IssueIdValidationWitness ==
    /\ util.op = "validateIssueId"
    /\ Len(util.id) = 101 /\ WellFormedId(util.id)
    /\ util.out = "length"

\* text t is text s with every capital letter A-Z replaced by its small letter
IsLowercaseOf(t, s) ==
    /\ Len(t) = Len(s)
    /\ \A k \in 1 .. Len(s) :
          IF \E n \in Letters : s[k] = Upper[n]
          THEN \E n \in Letters : s[k] = Upper[n] /\ t[k] = Lower[n]
          ELSE t[k] = s[k]

\* the names are as C31 gives them, and the worktree name is idempotent
NamesAsGiven ==
    \A k \in 1 .. 2 :
        /\ IsLowercaseOf(util.worktree[k], util.ids[k])
        /\ Len(util.branch[k]) = Len(util.ids[k]) + 6
        /\ SubSeq(util.branch[k], 1, 6) = <<"r", "a", "l", "p", "h", "-">>
        /\ SubSeq(util.branch[k], 7, Len(util.branch[k])) = util.ids[k]
        /\ util.worktreeAgain[k] = util.worktree[k]

\* C31, as stated: worktreeName(id) is lowercase(id), branchName(id) is
\* "ralph-" + id, and both are idempotent.
IssueNamesAsStated ==
    util.op = "names" =>
        /\ NamesAsGiven
        /\ \A k \in 1 .. 2 : util.branchAgain[k] = util.branch[k]

\* C31. For every issue id, worktreeName(id) is lowercase(id) and
\* branchName(id) is "ralph-" + id; worktreeName is idempotent.
IssueNamesHold ==
    util.op = "names" => NamesAsGiven

\* the names of HLN-1 were derived: hln-1 and ralph-HLN-1
IssueNamesHoldWitness ==
    /\ util.op = "names"
    /\ util.ids[1] = <<"H", "L", "N", "-", "1">>
    /\ util.worktree[1] = <<"h", "l", "n", "-", "1">>
    /\ util.worktreeAgain[1] = <<"h", "l", "n", "-", "1">>
    /\ util.branch[1] = <<"r", "a", "l", "p", "h", "-", "H", "L", "N", "-", "1">>

\* C40. Two distinct issue ids that validation accepts never have the same
\* worktree name, nor the same worktree directory.
WorktreeNameInjective ==
    util.op = "names" /\ util.accepted[1] /\ util.accepted[2]
        /\ util.ids[1] # util.ids[2] =>
            /\ util.worktree[1] # util.worktree[2]
            /\ util.dir[1] # util.dir[2]

\* the text is a positive integer written in decimal digits
IsPositiveInteger(text) ==
    /\ text # <<>>
    /\ \A n \in 1 .. Len(text) : DigitValue(text[n]) >= 0
    /\ \E n \in 1 .. Len(text) : DigitValue(text[n]) > 0

\* C32. getCommandTimeout returns the value of the environment variable
\* when it is a positive integer, and 300000 for every other value: unset,
\* empty, not a number, zero, negative, or not purely an integer.
TimeoutOverride ==
    util.op = "getCommandTimeout" =>
        IF util.env.defined /\ IsPositiveInteger(util.env.text)
        THEN util.out = DecimalValue(util.env.text, Len(util.env.text))
        ELSE util.out = 300000

\* the attempt observed as o ended with exit code 0 and left a file
\* <id>_*.md in the output directory of the stage
AttemptSucceeds(o, i) ==
    o.configOk /\ o.exitCode = 0 /\ o.dir.exists /\ \E f \in o.dir.files : f.issueId = i

\* the agent invocations of an attempt: none when the configuration fails
AttemptRuns(o) == IF o.configOk THEN 1 ELSE 0

\* C33. Research and Plan return success=true exactly when the first or the
\* second attempt ended with exit code 0 and a matching artifact; after
\* such an attempt they invoke the agent no more; a first attempt that
\* failed or left no artifact is followed by exactly one retry; and they
\* never invoke the agent more than twice.
BuilderSuccessExactly ==
    \A p \in Procs :
        hist[p].stage \in {"research", "plan"} =>
            LET obs == hist[p].details.input
                r == hist[p].result
                n == hist[p].details.agentRuns
                first == AttemptSucceeds(obs[1], issue[p])
                second == AttemptSucceeds(obs[2], issue[p])
            IN  /\ (r.status = "returned" /\ r.success) <=> (first \/ second)
                /\ first => n = 1
                /\ ~first => r.status = "returned" /\ n = AttemptRuns(obs[1]) + AttemptRuns(obs[2])
                /\ n <= 2

\* process p takes the step by which its run returns the refusal
RunRefused(p) ==
    pc[p] \in InAcquire /\ pc'[p] = "done" /\ lockResult'[p].called /\ ~lockResult'[p].acquired

\* what a refused run does besides naming the holder: it returns
\* success=false, has invoked no stage, goes straight to its end without
\* releasing, and none of the steps of its acquireLock call touched the file
RefusedRunFrame(p) ==
    /\ RunRefused(p) =>
          /\ result'[p].status = "returned" /\ ~result'[p].success
          /\ result'[p].message.kind = "lock_held"
          /\ calls'[p] = NoCalls /\ hist'[p] = NoStage
          /\ lockFile' = lockFile
    /\ pc[p] \in {"acq_exists", "acq_stale"} /\ pc'[p] \notin {pc[p], "dead"} =>
          lockFile' = lockFile
    /\ pc[p] = "done" => pc'[p] = "done"

\* C34, as stated: a run that fails to acquire the lock returns success=false
\* with a message naming the existing holder, invokes no stage, and neither
\* modifies nor deletes the lock file.
RefusedRunAsStated ==
    [][ \A p \in Procs :
          /\ RefusedRunFrame(p)
          /\ RunRefused(p) => result'[p].message.holder.kind = "lock" ]_vars

\* C34. A run that fails to acquire the lock returns success=false with a
\* message naming the holder the lock file records when it is read, or no
\* holder ("unknown process") when the file is gone by then; it invokes no
\* stage, and neither modifies nor deletes the lock file.
RefusedRun ==
    [][ \A p \in Procs :
          /\ RefusedRunFrame(p)
          /\ RunRefused(p) =>
                /\ result'[p].message.holder = lockResult'[p].existingLock
                /\ lockFile.kind = "lock" => result'[p].message.holder = lockFile
                /\ lockFile.kind # "lock" => result'[p].message.holder = Undefined
                /\ view[p] = "live" => lockFile.kind = "lock" ]_vars

\* a run was refused by the lock of another, live run and names it
RefusedRunWitness ==
    \E p, q \in Procs :
        /\ p # q /\ pc[p] = "done" /\ lockResult[p].called /\ ~lockResult[p].acquired
        /\ result[p].message.kind = "lock_held"
        /\ result[p].message.holder = lockFile /\ lockFile.kind = "lock" /\ lockFile.pid = q
        /\ pc[q] \notin NotRunning

\* ------------------------------------------------------- a run, scheduled
\* Every external process and file operation returns: a step of the run
\* that can be taken is eventually taken.
SpecFair == Spec /\ WF_vars(Next)

\* the most invocations of each stage in one run
StageLimit(s) == IF s \in {"spawn", "research", "publish"} THEN 1 ELSE 4

RunWithinLimits == \A s \in Stages : calls[Self][s] <= StageLimit(s)

\* the run is over: it returned a StepResult, and the lock it acquired is
\* no longer in the lock file
RunReturned ==
    pc[Self] = "done" =>
        /\ result[Self].status = "returned"
        /\ lockResult[Self].acquired => ~HoldsRecordOf(Self)

\* C35. Every run terminates; it makes at most 1 Spawn, 1 Research, 4 Plan,
\* 4 Validate, 4 Implement, 4 Review and 1 Publish invocations, then returns
\* a StepResult and, if it had acquired the lock, has released it.
RunTerminates ==
    /\ <>(pc[Self] = "done")
    /\ [](RunWithinLimits /\ RunReturned)

\* C36. Under any interleaving of concurrent acquireLock calls on one root,
\* no step of an acquireLock call deletes or overwrites a lock file whose
\* recorded pid belongs to a live process.
AcquireSparesLiveLocks ==
    [][ \A p \in Procs :
          pc[p] \in InAcquire /\ pc'[p] \notin {pc[p], "dead"}
              /\ lockFile.kind = "lock" /\ isProcessRunning(lockFile.pid) =>
                  lockFile' = lockFile ]_vars

\* C37. While a run that acquired the lock executes its stages, and no other
\* process interferes, the lock file exists and records that run's pid: no
\* stage, and no sync of the agent files into the worktree, deletes or
\* rewrites it.
LockKeptThroughStages ==
    \A p \in Procs : Holding(p) /\ lockResult[p].acquired => HoldsRecordOf(p)

\* the run has been through Implement and Review twice, each with its sync,
\* and still holds its record
LockKeptThroughStagesWitness ==
    /\ pc[Self] = "publish" /\ lockResult[Self].acquired
    /\ calls[Self]["implement"] = 2 /\ calls[Self]["review"] = 2
    /\ HoldsRecordOf(Self)

\* C38. Running Research, Plan, Validate, Review or Publish on a worktree
\* leaves the session file of that worktree, and its content, exactly as
\* they were before the stage.
SessionStoreFrame ==
    [][ \A p \in Procs :
          \A s \in {"research", "plan", "validate", "review", "publish"} :
              pc[p] = s /\ calls'[p][s] = calls[p][s] + 1 =>
                  sessionFile'[issue[p]] = sessionFile[issue[p]] ]_vars

\* the context holds the id an Implement recovered, and does not lose it
SessionIdThreaded(p) ==
    /\ ImplementStep(p) /\ hist'[p].result.success
          /\ hist'[p].result.sessionId # <<>> =>
              ctx'[p].sessionId = hist'[p].result.sessionId
    /\ ctx[p].sessionId # <<>> => ctx'[p].sessionId # <<>>

====
